---- MODULE Spec2Model ----
(***************************************************************************)
(* A model of the tudi crate: the Bounded contract (src/bounded.rs), the   *)
(* rectangle types Bounds and OriginCenteredBounds, the bounded cursor     *)
(* BoundedMovingObject and the Grid container (src/grid/generic_grid.rs).  *)
(*                                                                         *)
(* Six specifications share the module:                                    *)
(*   Spec         - a Grid<T> driven by its public mutators;               *)
(*   SpecBounded  - a free-standing Bounds rectangle (not necessarily      *)
(*                  centred) with the coordinate <-> index queries;        *)
(*   SpecCentered - an OriginCenteredBounds grown by its two expansions;   *)
(*   SpecCursor   - a BoundedMovingObject moved and re-bounded;            *)
(*   SpecRows     - a Grid<T> built from a list of rows;                   *)
(*   SpecNeighbors - a Bounds asked for neighbours and direction scans.    *)
(***************************************************************************)
EXTENDS Integers, Sequences, FiniteSets, TLC

VARIABLES grid, pre, op, res, region, query, cursor

vars == <<grid, pre, op, res, region, query, cursor>>

(***************************************************************************)
(* Bounds of the model.                                                    *)
(***************************************************************************)
\* Grid storage never grows beyond this many cells (Grid::new and add_row).
MaxCells == 6
\* Largest geometric length of a free-standing rectangle on either axis.
MaxLen == 2
\* The south-west corner of a free-standing rectangle lies in
\* [-MaxOffset, MaxOffset] on both axes.
MaxOffset == 2
\* An exhausted iterator is asked for a next item at most this many times.
MaxNextAfterEnd == 2
\* SpecCentered: the largest count an axis of the centred rectangle reaches.
MaxCount == 11
\* SpecCursor: boundaries given to the cursor lie in -MaxExtent .. MaxExtent,
\* and a move is by 0 .. MaxMagnitude steps.
MaxExtent == 1
MaxMagnitude == 2
\* SpecRows: the most rows given to Grid::try_from, and the longest row.
MaxRows == 2
MaxRowLen == 2

\* The values of the element type T.
Elements == {1, 2}

Directions == {"North", "East", "South", "West"}

(***************************************************************************)
(* Rust values.                                                            *)
(***************************************************************************)
\* A `let' of the code: v is computed once and handed to the rest of the body.
With(v, Rest(_)) == Rest(v)

None == << >>
Some(v) == << v >>

Ok(v) == [kind |-> "Ok", val |-> v]
OutOfBoundsError(c) == [kind |-> "OutOfBoundsError", position |-> c]
UnoccupiedError(c) == [kind |-> "UnoccupiedError", position |-> c]
CollisionError == [kind |-> "CollisionError"]
InvalidRegionError(lo, hi) == [kind |-> "InvalidRegionError", min |-> lo, max |-> hi]
\* A failed unwrap / expect / assert!.
\* Err(String) of a Result<_, String>.
Err(msg) == [kind |-> "Err", msg |-> msg]
GridCreationError == [kind |-> "GridCreationError"]
Panic == [kind |-> "Panic"]

IsErr(r) == r.kind \in {"OutOfBoundsError", "UnoccupiedError", "CollisionError"}

Abs(a) == IF a < 0 THEN -a ELSE a
Min(a, b) == IF a < b THEN a ELSE b
Max(a, b) == IF a > b THEN a ELSE b
\* Rust's integer division truncates toward zero.
TruncDiv(a, b) == IF a >= 0 THEN a \div b ELSE -((-a) \div b)

Coordinate(cx, cy) == [x |-> cx, y |-> cy]
Origin == Coordinate(0, 0)

GridCoordinate_Empty(c) == [kind |-> "Empty", c |-> c]
GridCoordinate_Object(v) == [kind |-> "Object", v |-> v]

(***************************************************************************)
(* Positioned / Coordinate                                                 *)
(***************************************************************************)
coordinate_in_direction(c, direction, magnitude) ==
    CASE direction = "North" -> Coordinate(c.x, c.y + magnitude)
      [] direction = "South" -> Coordinate(c.x, c.y - magnitude)
      [] direction = "East"  -> Coordinate(c.x + magnitude, c.y)
      [] direction = "West"  -> Coordinate(c.x - magnitude, c.y)

Coordinate_move_in_direction(c, direction, magnitude) ==
    CASE direction = "North" -> Coordinate(c.x, c.y + magnitude)
      [] direction = "East"  -> Coordinate(c.x + magnitude, c.y)
      [] direction = "West"  -> Coordinate(c.x - magnitude, c.y)
      [] direction = "South" -> Coordinate(c.x, c.y - magnitude)

\* Positioned::manhattan_neighbors: the four cardinal neighbours, in the
\* order North, East, South, West.
manhattan_neighbors(c) ==
    << coordinate_in_direction(c, "North", 1),
       coordinate_in_direction(c, "East", 1),
       coordinate_in_direction(c, "South", 1),
       coordinate_in_direction(c, "West", 1) >>

\* Positioned::euclid_neighbors: the four cardinal neighbours, then the four
\* diagonal ones in the order of the two nested loops.
euclid_neighbors(c) ==
    << coordinate_in_direction(c, "North", 1),
       coordinate_in_direction(c, "East", 1),
       coordinate_in_direction(c, "South", 1),
       coordinate_in_direction(c, "West", 1),
       coordinate_in_direction(coordinate_in_direction(c, "North", 1), "East", 1),
       coordinate_in_direction(coordinate_in_direction(c, "North", 1), "West", 1),
       coordinate_in_direction(coordinate_in_direction(c, "South", 1), "East", 1),
       coordinate_in_direction(coordinate_in_direction(c, "South", 1), "West", 1) >>

\* Mutation: the row itself no longer counts as above.
is_above_row_strict(c, row) == c.y > row
is_above_row(c, row) == c.y >= row
is_below_row(c, row) == c.y <= row

(***************************************************************************)
(* Bounds: a rectangle stored as its four corners.                         *)
(***************************************************************************)
Bounds_new(x_min, x_len, y_min, y_len) ==
    [northwest |-> Coordinate(x_min, y_min + y_len),
     northeast |-> Coordinate(x_min + x_len, y_min + y_len),
     southeast |-> Coordinate(x_min + x_len, y_min),
     southwest |-> Coordinate(x_min, y_min)]

\* Mutation: the corners facing East are taken to be the two northern ones.
mut_coordinates_facing_direction_east_as_north(dir) ==
    CASE dir = "North" -> {"northwest", "northeast"}
      [] dir = "South" -> {"southeast", "southwest"}
      [] dir = "East"  -> {"northwest", "northeast"}
      [] dir = "West"  -> {"northwest", "southwest"}

mut_coordinates_facing_direction(dir) ==
    CASE dir = "North" -> {"northwest", "northeast"}
      [] dir = "South" -> {"southeast", "southwest"}
      [] dir = "East"  -> {"southeast", "northeast"}
      [] dir = "West"  -> {"northwest", "southwest"}

expand_in_direction(bounds, dir) ==
    [corner \in DOMAIN bounds |->
        IF corner \in mut_coordinates_facing_direction(dir)
        THEN Coordinate_move_in_direction(bounds[corner], dir, 1)
        ELSE bounds[corner]]

Bounds_add_top_row(bounds) ==
    [bounds EXCEPT !.northwest = coordinate_in_direction(@, "North", 1),
                   !.northeast = coordinate_in_direction(@, "North", 1)]

Bounds_add_bottom_row(bounds) ==
    [bounds EXCEPT !.southwest = coordinate_in_direction(@, "South", 1),
                   !.southeast = coordinate_in_direction(@, "South", 1)]

\* impl MaybeOriginBounded for Bounds, through BoundsHelper<MaybeOriginCentered>:
\* the four scalar boundaries read from the stored corners.
Bounds_boundaries(bounds) ==
    [x_min |-> bounds.southwest.x,
     x_max |-> bounds.southeast.x,
     y_min |-> bounds.southwest.y,
     y_max |-> bounds.northeast.y]

(***************************************************************************)
(* The Bounded contract, over a record b of the four scalar boundaries.    *)
(***************************************************************************)
x_count(b) == Abs(b.x_max - b.x_min) + 1
y_count(b) == Abs(b.y_max - b.y_min) + 1
x_geometric_len(b) == Abs(b.x_max - b.x_min)
y_geometric_len(b) == Abs(b.y_max - b.y_min)

northwest_corner(b) == Coordinate(b.x_min, b.y_max)
northeast_corner(b) == Coordinate(b.x_max, b.y_max)
southwest_corner(b) == Coordinate(b.x_min, b.y_min)
southeast_corner(b) == Coordinate(b.x_max, b.y_min)

is_within_bounds(b, c) ==
    /\ b.x_min <= c.x
    /\ b.x_max >= c.x
    /\ b.y_min <= c.y
    /\ b.y_max >= c.y

\* Mutation: the row distance is measured from the south edge.
to_matrix_like_from_south(b, c) == << Abs(c.x - b.x_min), Abs(c.y - b.y_min) >>

\* [x, y] distances from the north-west corner (a 1-based pair here).
to_matrix_like(b, c) == << Abs(c.x - b.x_min), Abs(b.y_max - c.y) >>

to_grid_like(b, distance) ==
    LET coordinate == Coordinate(b.x_min + distance[1], b.y_max - distance[2])
    IN  IF is_within_bounds(b, coordinate)
        THEN Ok(coordinate)
        ELSE OutOfBoundsError(coordinate)

coordinate_to_index(b, c) ==
    IF ~is_within_bounds(b, c)
    THEN OutOfBoundsError(c)
    ELSE LET m == to_matrix_like(b, c)
         IN  Ok(m[2] * x_count(b) + m[1])

\* Mutation: the row is recovered by dividing by y_count.
index_to_coordinate_by_y_count(b, index) ==
    LET y_matrix_like == index \div y_count(b)
        x_matrix_like == index - y_matrix_like * y_count(b)
    IN  to_grid_like(b, << x_matrix_like, y_matrix_like >>)

index_to_coordinate(b, index) ==
    LET y_matrix_like == index \div x_count(b)
        x_matrix_like == index - y_matrix_like * x_count(b)
    IN  to_grid_like(b, << x_matrix_like, y_matrix_like >>)

\* Mutation: only the cardinal neighbours of the coordinate are candidates.
bounded_neighbors_to_cardinal(b, coordinate) ==
    SelectSeq(manhattan_neighbors(coordinate), LAMBDA x : is_within_bounds(b, x))

\* Bounded::bounded_neighbors_to: the euclid neighbours of the coordinate,
\* filtered to those within the bounds; the coordinate itself is not tested.
bounded_neighbors_to(b, coordinate) ==
    SelectSeq(euclid_neighbors(coordinate), LAMBDA x : is_within_bounds(b, x))

\* Mutation: the coordinate is pushed before it is advanced, so the start is
\* part of the result.
coordinates_in_direction_from_step_push_first(b, direction, state) ==
    IF is_within_bounds(b, state.coordinate)
    THEN [coordinate |-> coordinate_in_direction(state.coordinate, direction, 1),
          result |-> Append(state.result, state.coordinate),
          done |-> FALSE]
    ELSE [state EXCEPT !.done = TRUE]

\* Bounded::coordinates_in_direction_from, one turn of its loop: state holds
\* the loop variable coordinate, the vector result and whether the loop has
\* reached its break.
coordinates_in_direction_from_step(b, direction, state) ==
    With(coordinate_in_direction(state.coordinate, direction, 1), LAMBDA coordinate :
        IF is_within_bounds(b, coordinate)
        THEN [coordinate |-> coordinate,
              result |-> Append(state.result, coordinate),
              done |-> FALSE]
        ELSE [coordinate |-> coordinate, result |-> state.result, done |-> TRUE])

\* The state of the loop before its first turn.
coordinates_in_direction_from_entry(coordinate) ==
    [coordinate |-> coordinate, result |-> << >>, done |-> FALSE]

(***************************************************************************)
(* OriginCenteredBounds: a Bounds kept centred on the origin.  The wrapper *)
(* is a newtype, so a value is represented by the Bounds it wraps.         *)
(***************************************************************************)
\* impl OriginBounded for OriginCenteredBounds: counts from the stored corners.
OriginBounded_x_count(ocb) ==
    Bounds_boundaries(ocb).x_max - Bounds_boundaries(ocb).x_min + 1
OriginBounded_y_count(ocb) ==
    Bounds_boundaries(ocb).y_max - Bounds_boundaries(ocb).y_min + 1

\* BoundsHelper<OriginCentered>: boundaries derived from the counts alone.
OriginCentered_x_max_boundary(count) ==
    IF count = 0 THEN 0 ELSE count \div 2
\* Mutation: the bias of an even count toward the positive side is forgotten.
OriginCentered_x_min_boundary_unbiased(count) ==
    -(OriginCentered_x_max_boundary(count))
OriginCentered_x_min_boundary(count) ==
    IF count % 2 = 0
    THEN -(OriginCentered_x_max_boundary(count) - 1)
    ELSE -(OriginCentered_x_max_boundary(count))
OriginCentered_y_max_boundary(count) ==
    IF count = 0 THEN 0 ELSE count \div 2
OriginCentered_y_min_boundary(count) ==
    IF count % 2 = 0
    THEN -(OriginCentered_y_max_boundary(count) - 1)
    ELSE -(OriginCentered_y_max_boundary(count))

\* The boundaries an OriginBounded value (OriginCenteredBounds, Grid) reports.
OriginCentered_boundaries(ocb) ==
    With(OriginBounded_x_count(ocb), LAMBDA xc :
        With(OriginBounded_y_count(ocb), LAMBDA yc :
            [x_min |-> OriginCentered_x_min_boundary(xc),
             x_max |-> OriginCentered_x_max_boundary(xc),
             y_min |-> OriginCentered_y_min_boundary(yc),
             y_max |-> OriginCentered_y_max_boundary(yc)]))

\* Mutation: the y axis is validated before the x axis.
OriginCenteredBounds_try_from_y_first(value) ==
    LET vb    == Bounds_boundaries(value)
        x_max == vb.x_min + x_geometric_len(vb)
        y_max == vb.y_min + y_geometric_len(vb)
        x_min == vb.x_min
        y_min == vb.y_min
        x_dist == x_max - x_min
        y_dist == y_max - y_min
    IN  IF ~(-y_min = y_max \/ -y_min + 1 = y_max)
        THEN InvalidRegionError(y_min, y_max)
        ELSE IF ~(-x_min = x_max \/ -x_min + 1 = x_max)
        THEN InvalidRegionError(x_min, x_max)
        ELSE Ok(Bounds_new(x_min, x_dist, y_min, y_dist))

OriginCenteredBounds_try_from(value) ==
    LET vb    == Bounds_boundaries(value)
        x_max == vb.x_min + x_geometric_len(vb)
        y_max == vb.y_min + y_geometric_len(vb)
        x_min == vb.x_min
        y_min == vb.y_min
        x_dist == x_max - x_min
        y_dist == y_max - y_min
    IN  IF ~(-x_min = x_max \/ -x_min + 1 = x_max)
        THEN InvalidRegionError(x_min, x_max)
        ELSE IF ~(-y_min = y_max \/ -y_min + 1 = y_max)
        THEN InvalidRegionError(y_min, y_max)
        ELSE Ok(Bounds_new(x_min, x_dist, y_min, y_dist))

\* Mutation: the divisions round toward minus infinity instead of toward zero.
OriginCenteredBounds_new_flooring(xc, yc) ==
    LET x_min == (-(xc - ((xc + 1) % 2))) \div 2
        x_max == (xc + ((xc + 1) % 2)) \div 2
        y_min == (-(yc - ((yc + 1) % 2))) \div 2
        y_max == (yc + ((yc + 1) % 2)) \div 2
        x_dist == x_max - x_min
        y_dist == y_max - y_min
    IN  OriginCenteredBounds_try_from(Bounds_new(x_min, x_dist, y_min, y_dist))

\* Returns the Result that the constructor unwraps.
OriginCenteredBounds_new(xc, yc) ==
    LET x_min == TruncDiv(-(xc - ((xc + 1) % 2)), 2)
        x_max == TruncDiv(xc + ((xc + 1) % 2), 2)
        y_min == TruncDiv(-(yc - ((yc + 1) % 2)), 2)
        y_max == TruncDiv(yc + ((yc + 1) % 2), 2)
        x_dist == x_max - x_min
        y_dist == y_max - y_min
    IN  OriginCenteredBounds_try_from(Bounds_new(x_min, x_dist, y_min, y_dist))

\* Mutation: the horizontal expansion always grows the east side.
expand_bounds_horizontally_always_east(ocb) ==
    [bounds |-> expand_in_direction(ocb, "East"), ret |-> FALSE]

expand_bounds_horizontally(ocb) ==
    IF OriginBounded_x_count(ocb) % 2 = 0
    THEN [bounds |-> expand_in_direction(ocb, "West"), ret |-> TRUE]
    ELSE [bounds |-> expand_in_direction(ocb, "East"), ret |-> FALSE]

\* Mutation: the parity test of the vertical expansion is inverted.
expand_bounds_vertically_swapped(ocb) ==
    IF OriginBounded_y_count(ocb) % 2 = 1
    THEN [bounds |-> expand_in_direction(ocb, "South"), ret |-> FALSE]
    ELSE [bounds |-> expand_in_direction(ocb, "North"), ret |-> TRUE]

expand_bounds_vertically(ocb) ==
    IF OriginBounded_y_count(ocb) % 2 = 0
    THEN [bounds |-> expand_in_direction(ocb, "South"), ret |-> FALSE]
    ELSE [bounds |-> expand_in_direction(ocb, "North"), ret |-> TRUE]

(***************************************************************************)
(* BoundedMovingObject: position + direction + an owned Bounds.            *)
(***************************************************************************)
Marker_boundaries(marker) == Bounds_boundaries(marker.bounds)

\* Mutation: with the origin out of bounds the cursor starts at the origin
\* all the same.
BoundedMovingObject_new_always_origin(x_min, x_max, y_min, y_max) ==
    IF ~(x_max >= x_min) \/ ~(y_max >= y_min)
    THEN Panic
    ELSE Ok([current_pos |-> Origin,
             current_direction |-> "North",
             bounds |-> Bounds_new(x_min, x_max - x_min, y_min, y_max - y_min)])

BoundedMovingObject_new(x_min, x_max, y_min, y_max) ==
    IF ~(x_max >= x_min) \/ ~(y_max >= y_min)
    THEN Panic
    ELSE LET bounds == Bounds_new(x_min, x_max - x_min, y_min, y_max - y_min)
         IN  Ok([current_pos |->
                    IF is_within_bounds(Bounds_boundaries(bounds), Origin)
                    THEN Origin
                    ELSE Coordinate(x_min, y_max),
                 current_direction |-> "North",
                 bounds |-> bounds])

\* impl Mover: set_coordinate asserts the target is within the bounds.
set_coordinate(marker, c) ==
    IF ~is_within_bounds(Marker_boundaries(marker), c)
    THEN Panic
    ELSE Ok([marker EXCEPT !.current_pos = c])

\* TryFrom<(B, C)>: a cursor with the boundaries b, placed at c.
BoundedMovingObject_try_from(b, c) ==
    LET result == BoundedMovingObject_new(b.x_min, b.x_max, b.y_min, b.y_max)
    IN  IF result.kind = "Panic"
        THEN Panic
        ELSE IF is_within_bounds(Marker_boundaries(result.val), c)
        THEN set_coordinate(result.val, c)
        ELSE OutOfBoundsError(c)

from_bounded(b) == BoundedMovingObject_new(b.x_min, b.x_max, b.y_min, b.y_max)

set_current_x_to_x_min(marker) ==
    [marker EXCEPT !.current_pos.x = Marker_boundaries(marker).x_min]
set_current_y_to_y_max(marker) ==
    [marker EXCEPT !.current_pos.y = Marker_boundaries(marker).y_max]
\* Mutation: the position is put one step beyond the boundary.
set_current_x_to_x_max_beyond(marker) ==
    [marker EXCEPT !.current_pos.x = Marker_boundaries(marker).x_max + 1]
set_current_x_to_x_max(marker) ==
    [marker EXCEPT !.current_pos.x = Marker_boundaries(marker).x_max]
set_current_y_to_y_min(marker) ==
    [marker EXCEPT !.current_pos.y = Marker_boundaries(marker).y_min]

\* AbsoluteDirection::increment turns counter-clockwise, decrement clockwise.
increment(direction) ==
    CASE direction = "East"  -> "North"
      [] direction = "North" -> "West"
      [] direction = "West"  -> "South"
      [] direction = "South" -> "East"
decrement(direction) ==
    CASE direction = "East"  -> "South"
      [] direction = "North" -> "East"
      [] direction = "West"  -> "North"
      [] direction = "South" -> "West"

turn(marker, dir) ==
    IF dir = "Left"
    THEN [marker EXCEPT !.current_direction = increment(@)]
    ELSE [marker EXCEPT !.current_direction = decrement(@)]

\* Bounded::bounded_neighbors of the cursor.
bounded_neighbors(marker) ==
    SelectSeq(euclid_neighbors(marker.current_pos),
              LAMBDA x : is_within_bounds(Marker_boundaries(marker), x))

\* Mutation: the return value says whether a move was asked for, not whether
\* the position changed.
move_in_absolute_direction_reporting_request(marker, direction, magnitude) ==
    LET b == Marker_boundaries(marker)
        new_potential_coordinate ==
            coordinate_in_direction(marker.current_pos, direction, magnitude)
        x == Max(Min(new_potential_coordinate.x, b.x_max), b.x_min)
        y == Max(Min(new_potential_coordinate.y, b.y_max), b.y_min)
        moved == set_coordinate(marker, Coordinate(x, y))
    IN  IF moved.kind = "Panic"
        THEN [kind |-> "Panic", marker |-> marker, ret |-> FALSE]
        ELSE [kind |-> "Ok", marker |-> moved.val, ret |-> (magnitude > 0)]

\* Bounded::move_in_absolute_direction on a cursor: the clamped move.
move_in_absolute_direction(marker, direction, magnitude) ==
    LET b == Marker_boundaries(marker)
        previous_coordinate == marker.current_pos
        new_potential_coordinate ==
            coordinate_in_direction(marker.current_pos, direction, magnitude)
        x == Max(Min(new_potential_coordinate.x, b.x_max), b.x_min)
        y == Max(Min(new_potential_coordinate.y, b.y_max), b.y_min)
        moved == set_coordinate(marker, Coordinate(x, y))
    IN  IF moved.kind = "Panic"
        THEN [kind |-> "Panic", marker |-> marker, ret |-> FALSE]
        ELSE [kind |-> "Ok", marker |-> moved.val,
              ret |-> (previous_coordinate # moved.val.current_pos)]

\* Mutation: the position of the cursor is not consulted.
set_boundary_ignoring_position(m, axis, minmax, boundary) ==
    LET b == Marker_boundaries(m)
        previous_min == IF axis = "Y" THEN b.y_min ELSE b.x_min
        previous_max == IF axis = "Y" THEN b.y_max ELSE b.x_max
    IN  IF minmax = "Min" /\ previous_max < boundary
        THEN [marker |-> m, res |-> Err("New min greater than previous min")]
        ELSE IF minmax = "Max" /\ previous_min > boundary
        THEN [marker |-> m, res |-> Err("New max smaller than previous min!")]
        ELSE LET new_min == IF minmax = "Min" THEN boundary ELSE previous_min
                 new_max == IF minmax = "Min" THEN previous_max ELSE boundary
             IN  [marker |->
                     [m EXCEPT !.bounds =
                         IF axis = "Y"
                         THEN Bounds_new(b.x_min, x_count(b), new_min, new_max - new_min)
                         ELSE Bounds_new(new_min, new_max - new_min, b.y_min, y_count(b))],
                  res |-> Ok(boundary)]

\* Mutation: the length of the axis being set is passed as a count too.
set_boundary_counting_both_axes(m, axis, minmax, boundary) ==
    LET b == Marker_boundaries(m)
        previous_min == IF axis = "Y" THEN b.y_min ELSE b.x_min
        previous_max == IF axis = "Y" THEN b.y_max ELSE b.x_max
        pos == IF axis = "Y" THEN m.current_pos.y ELSE m.current_pos.x
    IN  IF minmax = "Min" /\ previous_max < boundary
        THEN [marker |-> m, res |-> Err("New min greater than previous min")]
        ELSE IF minmax = "Min" /\ pos < boundary
        THEN [marker |-> m, res |-> Err("Current x-position smaller than new min!")]
        ELSE IF minmax = "Max" /\ previous_min > boundary
        THEN [marker |-> m, res |-> Err("New max smaller than previous min!")]
        ELSE IF minmax = "Max" /\ pos > boundary
        THEN [marker |-> m, res |-> Err("Current y-positon greater than new max")]
        ELSE LET new_min == IF minmax = "Min" THEN boundary ELSE previous_min
                 new_max == IF minmax = "Min" THEN previous_max ELSE boundary
             IN  [marker |->
                     [m EXCEPT !.bounds =
                         IF axis = "Y"
                         THEN Bounds_new(b.x_min, x_count(b), new_min, new_max - new_min + 1)
                         ELSE Bounds_new(new_min, new_max - new_min + 1, b.y_min, y_count(b))],
                  res |-> Ok(boundary)]

\* BoundedMovingObject::set_boundary.  Returns the cursor afterwards and the
\* Result.  The rectangle is rebuilt with Bounds::new, whose second and
\* fourth arguments are lengths; for the axis that is not being set the code
\* passes x_count() / y_count().
set_boundary(m, axis, minmax, boundary) ==
    LET b == Marker_boundaries(m)
        previous_min == IF axis = "Y" THEN b.y_min ELSE b.x_min
        previous_max == IF axis = "Y" THEN b.y_max ELSE b.x_max
        pos == IF axis = "Y" THEN m.current_pos.y ELSE m.current_pos.x
    IN  IF minmax = "Min" /\ previous_max < boundary
        THEN [marker |-> m, res |-> Err("New min greater than previous min")]
        ELSE IF minmax = "Min" /\ pos < boundary
        THEN [marker |-> m, res |-> Err("Current x-position smaller than new min!")]
        ELSE IF minmax = "Max" /\ previous_min > boundary
        THEN [marker |-> m, res |-> Err("New max smaller than previous min!")]
        ELSE IF minmax = "Max" /\ pos > boundary
        THEN [marker |-> m, res |-> Err("Current y-positon greater than new max")]
        ELSE LET new_min == IF minmax = "Min" THEN boundary ELSE previous_min
                 new_max == IF minmax = "Min" THEN previous_max ELSE boundary
             IN  [marker |->
                     [m EXCEPT !.bounds =
                         IF axis = "Y"
                         THEN Bounds_new(b.x_min, x_count(b), new_min, new_max - new_min)
                         ELSE Bounds_new(new_min, new_max - new_min, b.y_min, y_count(b))],
                  res |-> Ok(boundary)]

\* impl DynamicallyBounded for BoundedMovingObject.
set_y_max_boundary(m, boundary) == set_boundary(m, "Y", "Max", boundary)
set_y_min_boundary(m, boundary) == set_boundary(m, "Y", "Min", boundary)
set_x_max_boundary(m, boundary) == set_boundary(m, "X", "Max", boundary)
set_x_min_boundary(m, boundary) == set_boundary(m, "X", "Min", boundary)

\* DynamicallyBounded::inherit_boundaries: four setter calls, each followed
\* by `?`, so the first error is returned and the earlier calls stay applied.
inherit_boundaries(m, bounded) ==
    With(set_x_min_boundary(m, bounded.x_min), LAMBDA r1 :
    IF r1.res.kind # "Ok" THEN r1 ELSE
    With(set_y_min_boundary(r1.marker, bounded.y_min), LAMBDA r2 :
    IF r2.res.kind # "Ok" THEN r2 ELSE
    With(set_y_max_boundary(r2.marker, bounded.y_max), LAMBDA r3 :
    IF r3.res.kind # "Ok" THEN r3 ELSE
    With(set_x_max_boundary(r3.marker, bounded.x_max), LAMBDA r4 :
    IF r4.res.kind # "Ok" THEN r4 ELSE
    [marker |-> r4.marker, res |-> Ok(<< >>)]))))

(***************************************************************************)
(* Grid<T>: g.grid_data is the cell storage (index i of the code is        *)
(* position i + 1 of the sequence), g.bounds the OriginCenteredBounds.     *)
(* A mutator returns [grid |-> the grid afterwards, res |-> its result].   *)
(***************************************************************************)
\* impl OriginBounded for Grid, read through the Bounded blanket impl.
Grid_boundaries(g) == OriginCentered_boundaries(g.bounds)
Grid_x_count(g) == OriginBounded_x_count(g.bounds)
Grid_y_count(g) == OriginBounded_y_count(g.bounds)

\* What is left of a grid whose construction panicked.
NoGrid == [grid_data |-> << >>, bounds |-> Bounds_new(0, 0, 0, 0)]

\* Mutation: the storage is filled for the counts asked for, not for the
\* boundaries that came out of them.
Grid_new_filling_requested_counts(xc, yc) ==
    LET bounds == OriginCenteredBounds_new(xc, yc)
    IN  IF bounds.kind # "Ok"
        THEN [grid |-> NoGrid, res |-> Panic]
        ELSE LET b  == OriginCentered_boundaries(bounds.val)
                 nx == b.x_max - b.x_min + 1
                 n  == xc * yc
             IN  [grid |->
                    [grid_data |->
                        [i \in 1..n |->
                            GridCoordinate_Empty(
                                Coordinate(b.x_min + ((i - 1) % nx),
                                           b.y_max - ((i - 1) \div nx)))],
                     bounds |-> bounds.val],
                  res |-> Ok(None)]

Grid_new(xc, yc) ==
    LET bounds == OriginCenteredBounds_new(xc, yc)
    IN  IF bounds.kind # "Ok"
        THEN [grid |-> NoGrid, res |-> Panic]
        ELSE LET b  == OriginCentered_boundaries(bounds.val)
                 nx == b.x_max - b.x_min + 1
                 ny == b.y_max - b.y_min + 1
                 n  == IF nx <= 0 \/ ny <= 0 THEN 0 ELSE nx * ny
             IN  [grid |->
                    [grid_data |->
                        [i \in 1..n |->
                            GridCoordinate_Empty(
                                Coordinate(b.x_min + ((i - 1) % nx),
                                           b.y_max - ((i - 1) \div nx)))],
                     bounds |-> bounds.val],
                  res |-> Ok(None)]

\* Ok(Some(v)) / Ok(None), or Panic for a coordinate outside the bounds.
\* Indexing the storage past its end panics as well.
element_unchecked(g, c) ==
    With(Grid_boundaries(g), LAMBDA b :
        IF ~is_within_bounds(b, c)
        THEN Panic
        ELSE With(coordinate_to_index(b, c).val + 1, LAMBDA index :
                IF index > Len(g.grid_data)
                THEN Panic
                ELSE With(g.grid_data[index], LAMBDA val :
                        IF val.kind = "Object" THEN Ok(Some(val.v)) ELSE Ok(None))))

\* Mutation: the checked form asserts the bounds like the unchecked one.
element_asserting(g, c) ==
    IF ~is_within_bounds(Grid_boundaries(g), c)
    THEN Panic
    ELSE LET e == element_unchecked(g, c)
         IN  IF e.kind = "Panic" THEN Panic
             ELSE IF e.val = None THEN UnoccupiedError(c)
             ELSE Ok(e.val[1])

element(g, c) ==
    IF ~is_within_bounds(Grid_boundaries(g), c)
    THEN OutOfBoundsError(c)
    ELSE LET e == element_unchecked(g, c)
         IN  IF e.kind = "Panic" THEN Panic
             ELSE IF e.val = None THEN UnoccupiedError(c)
             ELSE Ok(e.val[1])

\* Mutation: writing onto an occupied cell is refused as a collision.
store_element_refusing_occupied(g, c, e) ==
    LET index == coordinate_to_index(Grid_boundaries(g), c)
    IN  IF index.kind # "Ok"
        THEN [grid |-> g, res |-> index]
        ELSE LET previous_val == g.grid_data[index.val + 1]
                 g2 == [g EXCEPT !.grid_data[index.val + 1] = GridCoordinate_Object(e)]
             IN  IF previous_val.kind = "Object"
                 THEN [grid |-> g, res |-> CollisionError]
                 ELSE [grid |-> g2, res |-> Ok(None)]

store_element(g, c, e) ==
    LET index == coordinate_to_index(Grid_boundaries(g), c)
    IN  IF index.kind # "Ok"
        THEN [grid |-> g, res |-> index]
        ELSE LET previous_val == g.grid_data[index.val + 1]
                 g2 == [g EXCEPT !.grid_data[index.val + 1] = GridCoordinate_Object(e)]
             IN  IF previous_val.kind = "Object"
                 THEN [grid |-> g2, res |-> Ok(Some(previous_val.v))]
                 ELSE [grid |-> g2, res |-> Ok(None)]

\* Mutation: the element is returned but its cell is not cleared.
remove_element_keeping_cell(g, c) ==
    LET index == coordinate_to_index(Grid_boundaries(g), c)
    IN  IF index.kind # "Ok"
        THEN [grid |-> g, res |-> index]
        ELSE LET previous_grid_coordinate == g.grid_data[index.val + 1]
             IN  IF previous_grid_coordinate.kind = "Object"
                 THEN [grid |-> g, res |-> Ok(previous_grid_coordinate.v)]
                 ELSE [grid |-> g, res |-> UnoccupiedError(c)]

\* Mutation: the cell is cleared with a default placeholder instead of Empty(c).
remove_element_default_placeholder(g, c) ==
    LET index == coordinate_to_index(Grid_boundaries(g), c)
    IN  IF index.kind # "Ok"
        THEN [grid |-> g, res |-> index]
        ELSE LET previous_grid_coordinate == g.grid_data[index.val + 1]
                 g2 == [g EXCEPT !.grid_data[index.val + 1] = GridCoordinate_Empty(Origin)]
             IN  IF previous_grid_coordinate.kind = "Object"
                 THEN [grid |-> g2, res |-> Ok(previous_grid_coordinate.v)]
                 ELSE [grid |-> g2, res |-> UnoccupiedError(c)]

remove_element(g, c) ==
    LET index == coordinate_to_index(Grid_boundaries(g), c)
    IN  IF index.kind # "Ok"
        THEN [grid |-> g, res |-> index]
        ELSE LET previous_grid_coordinate == g.grid_data[index.val + 1]
                 g2 == [g EXCEPT !.grid_data[index.val + 1] = GridCoordinate_Empty(c)]
             IN  IF previous_grid_coordinate.kind = "Object"
                 THEN [grid |-> g2, res |-> Ok(previous_grid_coordinate.v)]
                 ELSE [grid |-> g2, res |-> UnoccupiedError(c)]

\* Mutation: the destination is not checked for an occupant.
move_element_in_direction_overwriting(g, c, direction) ==
    LET marker == BoundedMovingObject_try_from(Grid_boundaries(g), c)
    IN  IF marker.kind # "Ok"
        THEN [grid |-> g, res |-> marker]
        ELSE LET mv == move_in_absolute_direction(marker.val, direction, 1)
             IN  IF mv.kind = "Panic"
                 THEN [grid |-> g, res |-> Panic]
                 ELSE IF mv.ret
                 THEN LET dest == mv.marker.current_pos
                          removed == remove_element(g, c)
                      IN  IF removed.res.kind # "Ok"
                          THEN removed
                          ELSE LET stored == store_element(removed.grid, dest,
                                                           removed.res.val)
                               IN  IF stored.res.kind # "Ok"
                                   THEN stored
                                   ELSE [grid |-> stored.grid, res |-> Ok(dest)]
                 ELSE [grid |-> g,
                       res |-> OutOfBoundsError(
                           coordinate_in_direction(mv.marker.current_pos, direction, 1))]

\* Mutation: the source is removed before the destination is checked.
move_element_in_direction_removing_first(g, c, direction) ==
    LET marker == BoundedMovingObject_try_from(Grid_boundaries(g), c)
    IN  IF marker.kind # "Ok"
        THEN [grid |-> g, res |-> marker]
        ELSE LET mv == move_in_absolute_direction(marker.val, direction, 1)
             IN  IF mv.kind = "Panic"
                 THEN [grid |-> g, res |-> Panic]
                 ELSE IF mv.ret
                 THEN LET dest == mv.marker.current_pos
                          removed == remove_element(g, c)
                          occupant == element_unchecked(removed.grid, dest)
                      IN  IF removed.res.kind # "Ok"
                          THEN removed
                          ELSE IF occupant.val # None
                          THEN [grid |-> removed.grid, res |-> CollisionError]
                          ELSE LET stored == store_element(removed.grid, dest,
                                                           removed.res.val)
                               IN  IF stored.res.kind # "Ok"
                                   THEN stored
                                   ELSE [grid |-> stored.grid, res |-> Ok(dest)]
                 ELSE [grid |-> g,
                       res |-> OutOfBoundsError(
                           coordinate_in_direction(mv.marker.current_pos, direction, 1))]

\* Mutation: the cell under the cursor is probed for an occupant before the
\* outcome of the clamped move is looked at.
move_element_in_direction_probing_cursor(g, c, direction) ==
    LET marker == BoundedMovingObject_try_from(Grid_boundaries(g), c)
    IN  IF marker.kind # "Ok"
        THEN [grid |-> g, res |-> marker]
        ELSE LET mv == move_in_absolute_direction(marker.val, direction, 1)
                 dest == mv.marker.current_pos
             IN  IF mv.kind = "Panic"
                 THEN [grid |-> g, res |-> Panic]
                 ELSE IF element_unchecked(g, dest).val # None
                 THEN [grid |-> g, res |-> CollisionError]
                 ELSE IF mv.ret
                 THEN LET removed == remove_element(g, c)
                      IN  IF removed.res.kind # "Ok"
                          THEN removed
                          ELSE LET stored == store_element(removed.grid, dest,
                                                           removed.res.val)
                               IN  IF stored.res.kind # "Ok"
                                   THEN stored
                                   ELSE [grid |-> stored.grid, res |-> Ok(dest)]
                 ELSE [grid |-> g,
                       res |-> OutOfBoundsError(
                           coordinate_in_direction(mv.marker.current_pos, direction, 1))]

\* Mutation: the element is copied to the destination and the source keeps it.
move_element_in_direction_copying(g, c, direction) ==
    LET marker == BoundedMovingObject_try_from(Grid_boundaries(g), c)
    IN  IF marker.kind # "Ok"
        THEN [grid |-> g, res |-> marker]
        ELSE LET mv == move_in_absolute_direction(marker.val, direction, 1)
                 dest == mv.marker.current_pos
             IN  IF mv.kind = "Panic"
                 THEN [grid |-> g, res |-> Panic]
                 ELSE IF mv.ret
                 THEN IF element_unchecked(g, dest).val # None
                      THEN [grid |-> g, res |-> CollisionError]
                      ELSE LET removed == remove_element(g, c)
                           IN  IF removed.res.kind # "Ok"
                               THEN removed
                               ELSE [grid |-> store_element(g, dest, removed.res.val).grid,
                                     res |-> Ok(dest)]
                 ELSE [grid |-> g,
                       res |-> OutOfBoundsError(
                           coordinate_in_direction(mv.marker.current_pos, direction, 1))]

move_element_in_direction(g, c, direction) ==
    LET marker == BoundedMovingObject_try_from(Grid_boundaries(g), c)
    IN  IF marker.kind # "Ok"
        THEN [grid |-> g, res |-> marker]
        ELSE LET mv == move_in_absolute_direction(marker.val, direction, 1)
             IN  IF mv.kind = "Panic"
                 THEN [grid |-> g, res |-> Panic]
                 ELSE IF mv.ret
                 THEN LET dest == mv.marker.current_pos
                          occupant == element_unchecked(g, dest)
                      IN  IF occupant.kind = "Panic"
                          THEN [grid |-> g, res |-> Panic]
                          ELSE IF occupant.val # None
                          THEN [grid |-> g, res |-> CollisionError]
                          ELSE LET removed == remove_element(g, c)
                               IN  IF removed.res.kind # "Ok"
                                   THEN removed
                                   ELSE LET stored == store_element(removed.grid, dest,
                                                                    removed.res.val)
                                        IN  IF stored.res.kind # "Ok"
                                            THEN stored
                                            ELSE [grid |-> stored.grid, res |-> Ok(dest)]
                 ELSE [grid |-> g,
                       res |-> OutOfBoundsError(
                           coordinate_in_direction(mv.marker.current_pos, direction, 1))]

\* The two nested loops of Grid::try_from: the cell of row `row`, column
\* `col` (y_count and x_count in the code, counted from 1 here) is pushed
\* after those already in grid_data.
RECURSIVE try_from_push(_, _, _, _, _)
try_from_push(b, value, row, col, grid_data) ==
    IF row > Len(value)
    THEN Ok(grid_data)
    ELSE IF col > Len(value[row])
    THEN try_from_push(b, value, row + 1, 1, grid_data)
    ELSE With(to_grid_like(b, << col - 1, row - 1 >>), LAMBDA coordinate :
            IF coordinate.kind # "Ok"
            THEN Panic
            ELSE try_from_push(b, value, row, col + 1,
                    Append(grid_data,
                        IF value[row][col] # None
                        THEN GridCoordinate_Object(value[row][col][1])
                        ELSE GridCoordinate_Empty(coordinate.val))))

\* TryFrom<Vec<Vec<Option<T>>>> for Grid<T>: Ok(grid), GridCreationError, or
\* Panic where the code unwraps nothing.
Grid_try_from(value) ==
    IF value = << >>
    THEN Panic
    ELSE IF ~(\A i \in 1..Len(value) : Len(value[i]) = Len(value[1]))
    THEN GridCreationError
    ELSE With(Grid_new(Len(value[1]), Len(value)), LAMBDA result :
            IF result.res.kind = "Panic"
            THEN Panic
            ELSE With(try_from_push(Grid_boundaries(result.grid), value, 1, 1, << >>),
                      LAMBDA grid_data :
                    IF grid_data.kind # "Ok"
                    THEN Panic
                    ELSE Ok([result.grid EXCEPT !.grid_data = grid_data.val])))

(***************************************************************************)
(* GridIter: the cursor-driven iterator behind iter_new.                   *)
(***************************************************************************)
GridIter_new(g) ==
    LET current == from_bounded(OriginCentered_boundaries(g.bounds)).val
    IN  [current |-> set_current_y_to_y_max(set_current_x_to_x_min(current)),
         visited_last |-> FALSE]

\* Mutation: the iterator stops on reaching the south-east corner, which is
\* never yielded.
GridIter_next_stopping_at_last(it, g) ==
    LET at_last == southeast_corner(Marker_boundaries(it.current)) = it.current.current_pos
    IN  IF at_last
        THEN [item |-> None, it |-> it]
        ELSE LET result  == << it.current.current_pos,
                               element_unchecked(g, it.current.current_pos).val >>
                 east    == move_in_absolute_direction(it.current, "East", 1)
                 south   == move_in_absolute_direction(east.marker, "South", 1)
                 current == IF east.ret THEN east.marker
                            ELSE IF south.ret THEN set_current_x_to_x_min(south.marker)
                            ELSE south.marker
             IN  [item |-> Some(result),
                  it |-> [current |-> current, visited_last |-> it.visited_last]]

\* One call of next: [item |-> None or Some(<<coordinate, element>>), it |-> ...].
GridIter_next(it, g) ==
    LET at_last == southeast_corner(Marker_boundaries(it.current)) = it.current.current_pos
    IN  IF at_last /\ it.visited_last
        THEN [item |-> None, it |-> it]
        ELSE LET visited == IF at_last THEN TRUE ELSE it.visited_last
                 result  == << it.current.current_pos,
                               element_unchecked(g, it.current.current_pos).val >>
                 east    == move_in_absolute_direction(it.current, "East", 1)
                 south   == move_in_absolute_direction(east.marker, "South", 1)
                 current == IF east.ret THEN east.marker
                            ELSE IF south.ret THEN set_current_x_to_x_min(south.marker)
                            ELSE south.marker
             IN  [item |-> Some(result),
                  it |-> [current |-> current, visited_last |-> visited]]

RECURSIVE GridIter_collect(_, _, _)
GridIter_collect(it, g, acc) ==
    With(GridIter_next(it, g), LAMBDA n :
        IF n.item = None
        THEN acc
        ELSE GridIter_collect(n.it, g, Append(acc, n.item[1])))

\* The items a fresh iterator yields, in order.
iter_new(g) == GridIter_collect(GridIter_new(g), g, << >>)

\* The coordinates of the occupied cells, in iteration order.
iter_elements_new(g) ==
    LET IsOccupied(item) == item[2] # None
        items == SelectSeq(iter_new(g), IsOccupied)
    IN  [i \in 1..Len(items) |-> items[i][1]]

Reverse(s) == [i \in 1..Len(s) |-> s[Len(s) + 1 - i]]

(***************************************************************************)
(* empty_rows / empty_columns: linear scans with a labelled inner loop.     *)
(***************************************************************************)
\* Mutation: an occupied cell does not end the scan of its row.
RECURSIVE empty_rows_inner_without_break(_, _, _)
empty_rows_inner_without_break(g, x, y) ==
    IF x > Grid_boundaries(g).x_max
    THEN "skip"
    ELSE With(element_unchecked(g, Coordinate(x, y)), LAMBDA e :
            IF e.kind = "Panic" THEN "panic"
            ELSE IF e.val = None /\ x = Grid_boundaries(g).x_max THEN "push"
            ELSE empty_rows_inner_without_break(g, x + 1, y))

\* The inner loop of empty_rows from column x on: "push" when y is pushed,
\* "skip" when the loop is left without a push.
RECURSIVE empty_rows_inner(_, _, _)
empty_rows_inner(g, x, y) ==
    IF x > Grid_boundaries(g).x_max
    THEN "skip"
    ELSE With(element_unchecked(g, Coordinate(x, y)), LAMBDA e :
            IF e.kind = "Panic" THEN "panic"
            ELSE IF e.val # None THEN "skip"
            ELSE IF x = Grid_boundaries(g).x_max THEN "push"
            ELSE empty_rows_inner(g, x + 1, y))

\* The outer loop of empty_rows from row y on.
RECURSIVE empty_rows_outer(_, _, _)
empty_rows_outer(g, y, result) ==
    IF y > Grid_boundaries(g).y_max
    THEN Ok(result)
    ELSE With(empty_rows_inner(g, Grid_boundaries(g).x_min, y), LAMBDA r :
            IF r = "panic" THEN Panic
            ELSE empty_rows_outer(g, y + 1,
                                  IF r = "push" THEN Append(result, y) ELSE result))

empty_rows(g) == empty_rows_outer(g, Grid_boundaries(g).y_min, << >>)

RECURSIVE empty_columns_inner(_, _, _)
empty_columns_inner(g, x, y) ==
    IF y > Grid_boundaries(g).y_max
    THEN "skip"
    ELSE With(element_unchecked(g, Coordinate(x, y)), LAMBDA e :
            IF e.kind = "Panic" THEN "panic"
            ELSE IF e.val # None THEN "skip"
            ELSE IF y = Grid_boundaries(g).y_max THEN "push"
            ELSE empty_columns_inner(g, x, y + 1))

RECURSIVE empty_columns_outer(_, _, _)
empty_columns_outer(g, x, result) ==
    IF x > Grid_boundaries(g).x_max
    THEN Ok(result)
    ELSE With(empty_columns_inner(g, x, Grid_boundaries(g).y_min), LAMBDA r :
            IF r = "panic" THEN Panic
            ELSE empty_columns_outer(g, x + 1,
                                     IF r = "push" THEN Append(result, x) ELSE result))

empty_columns(g) == empty_columns_outer(g, Grid_boundaries(g).x_min, << >>)

(***************************************************************************)
(* Growth: add_row and expand_at_row.                                      *)
(***************************************************************************)
\* Mutation: the bottom row is inserted at the front of the storage.
Grid_add_bottom_row_prepending(g) ==
    LET b     == Grid_boundaries(g)
        y_min == b.y_min - 1
        nx    == IF b.x_max >= b.x_min THEN b.x_max - b.x_min + 1 ELSE 0
        row   == [i \in 1..nx |-> GridCoordinate_Empty(Coordinate(b.x_min + i - 1, y_min))]
    IN  [grid_data |-> row \o g.grid_data,
         bounds |-> expand_bounds_vertically(g.bounds).bounds]

Grid_add_bottom_row(g) ==
    LET b     == Grid_boundaries(g)
        y_min == b.y_min - 1
        nx    == IF b.x_max >= b.x_min THEN b.x_max - b.x_min + 1 ELSE 0
        row   == [i \in 1..nx |-> GridCoordinate_Empty(Coordinate(b.x_min + i - 1, y_min))]
    IN  [grid_data |-> g.grid_data \o row,
         bounds |-> expand_bounds_vertically(g.bounds).bounds]

\* Mutation: the row is inserted but the bounds are not expanded.
Grid_add_top_row_stale_bounds(g) ==
    LET b     == Grid_boundaries(g)
        y_max == b.y_max + 1
        nx    == IF b.x_max >= b.x_min THEN b.x_max - b.x_min + 1 ELSE 0
        row   == [i \in 1..nx |-> GridCoordinate_Empty(Coordinate(b.x_min + i - 1, y_max))]
    IN  [grid_data |-> row \o g.grid_data,
         bounds |-> g.bounds]

Grid_add_top_row(g) ==
    LET b     == Grid_boundaries(g)
        y_max == b.y_max + 1
        nx    == IF b.x_max >= b.x_min THEN b.x_max - b.x_min + 1 ELSE 0
        row   == [i \in 1..nx |-> GridCoordinate_Empty(Coordinate(b.x_min + i - 1, y_max))]
    IN  [grid_data |-> row \o g.grid_data,
         bounds |-> expand_bounds_vertically(g.bounds).bounds]

add_row(g) ==
    IF Grid_y_count(g) % 2 = 0
    THEN [grid |-> Grid_add_bottom_row(g), res |-> Ok(FALSE)]
    ELSE [grid |-> Grid_add_top_row(g), res |-> Ok(TRUE)]

\* The loop of row_filter_move_elements_in_direction: `?' stops at the first error.
RECURSIVE move_each(_, _, _)
move_each(g, coordinates, direction) ==
    IF coordinates = << >>
    THEN [grid |-> g, res |-> Ok(None)]
    ELSE With(move_element_in_direction(g, Head(coordinates), direction),
              LAMBDA moved :
                 IF moved.res.kind # "Ok"
                 THEN moved
                 ELSE move_each(moved.grid, Tail(coordinates), direction))

\* Mutation: the elements are always moved in iteration order.
row_filter_move_elements_in_direction_unordered(g, filter, row, direction) ==
    LET Keep(c) == IF filter = "is_above_row"
                   THEN is_above_row(c, row)
                   ELSE is_below_row(c, row)
    IN  move_each(g, SelectSeq(iter_elements_new(g), Keep), direction)

\* filter names the fn(&Coordinate, i32) -> bool that is passed in.
row_filter_move_elements_in_direction(g, filter, row, direction) ==
    LET Keep(c) == IF filter = "is_above_row"
                   THEN is_above_row(c, row)
                   ELSE is_below_row(c, row)
    IN  With(SelectSeq(iter_elements_new(g), Keep),
             LAMBDA element_coordinates :
                IF direction = "South" \/ direction = "East"
                THEN move_each(g, Reverse(element_coordinates), direction)
                ELSE move_each(g, element_coordinates, direction))

move_elements_above_row_in_direction(g, y_coord, direction) ==
    row_filter_move_elements_in_direction(g, "is_above_row", y_coord, direction)

move_elements_below_row_in_direction(g, y_coord, direction) ==
    row_filter_move_elements_in_direction(g, "is_below_row", y_coord, direction)

expand_at_row(g, y_coord) ==
    With(add_row(g), LAMBDA added :
        With(IF added.res.val
             THEN move_elements_above_row_in_direction(added.grid, y_coord, "North")
             ELSE move_elements_below_row_in_direction(added.grid, y_coord, "South"),
             LAMBDA moved :
                IF moved.res.kind # "Ok"
                THEN [grid |-> moved.grid, res |-> Panic]
                ELSE [grid |-> moved.grid, res |-> Ok(added.res.val)]))

(***************************************************************************)
(* transpose_new                                                           *)
(***************************************************************************)
\* impl IntoIterator for Grid: <<coordinate, Option<T>>> per storage index.
into_iter(g) ==
    LET gb == Grid_boundaries(g)
        bounds == Bounds_new(gb.x_min, x_geometric_len(gb), gb.y_min, y_geometric_len(gb))
    IN  [i \in 1..Len(g.grid_data) |->
            << index_to_coordinate(Bounds_boundaries(bounds), i - 1),
               IF g.grid_data[i].kind = "Object" THEN Some(g.grid_data[i].v) ELSE None >>]

\* Mutation: the column index is mirrored while the positions are swapped, which
\* turns the grid by a quarter instead of transposing it.
RECURSIVE transpose_each_mirrored(_, _, _)
transpose_each_mirrored(new_grid, items, previous_bounds) ==
    IF items = << >>
    THEN [grid |-> new_grid, res |-> Ok(None)]
    ELSE LET coordinate == Head(items)[1]
             e == Head(items)[2]
         IN  IF coordinate.kind # "Ok"
                \/ ~is_within_bounds(Bounds_boundaries(previous_bounds), coordinate.val)
             THEN [grid |-> new_grid, res |-> Panic]
             ELSE LET matrix_coordinates ==
                          to_matrix_like(Bounds_boundaries(previous_bounds), coordinate.val)
                      new_coordinate ==
                          to_grid_like(Grid_boundaries(new_grid),
                                       << matrix_coordinates[2],
                                          x_geometric_len(Bounds_boundaries(previous_bounds))
                                              - matrix_coordinates[1] >>)
                  IN  IF new_coordinate.kind # "Ok"
                      THEN [grid |-> new_grid, res |-> Panic]
                      ELSE IF e = None
                      THEN transpose_each_mirrored(new_grid, Tail(items), previous_bounds)
                      ELSE LET stored == store_element(new_grid, new_coordinate.val, e[1])
                           IN  IF stored.res.kind # "Ok"
                               THEN [grid |-> stored.grid, res |-> Panic]
                               ELSE transpose_each_mirrored(stored.grid, Tail(items),
                                                            previous_bounds)

\* The loop of transpose_new over the items of the old grid.
RECURSIVE transpose_each(_, _, _)
transpose_each(new_grid, items, previous_bounds) ==
    IF items = << >>
    THEN [grid |-> new_grid, res |-> Ok(None)]
    ELSE LET coordinate == Head(items)[1]
             e == Head(items)[2]
         IN  IF coordinate.kind # "Ok"
                \/ ~is_within_bounds(Bounds_boundaries(previous_bounds), coordinate.val)
             THEN [grid |-> new_grid, res |-> Panic]
             ELSE LET matrix_coordinates ==
                          to_matrix_like(Bounds_boundaries(previous_bounds), coordinate.val)
                      new_coordinate ==
                          to_grid_like(Grid_boundaries(new_grid),
                                       << matrix_coordinates[2], matrix_coordinates[1] >>)
                  IN  IF new_coordinate.kind # "Ok"
                      THEN [grid |-> new_grid, res |-> Panic]
                      ELSE IF e = None
                      THEN transpose_each(new_grid, Tail(items), previous_bounds)
                      ELSE LET stored == store_element(new_grid, new_coordinate.val, e[1])
                           IN  IF stored.res.kind # "Ok"
                               THEN [grid |-> stored.grid, res |-> Panic]
                               ELSE transpose_each(stored.grid, Tail(items), previous_bounds)

\* Mutation: the fresh grid is built with the counts in the old order.
transpose_new_same_shape(g) ==
    LET old_grid == g
        fresh == Grid_new(Grid_x_count(g), Grid_y_count(g))
        ob == Grid_boundaries(old_grid)
        previous_bounds ==
            Bounds_new(ob.x_min, x_geometric_len(ob), ob.y_min, y_geometric_len(ob))
    IN  IF fresh.res.kind # "Ok"
        THEN [grid |-> fresh.grid, res |-> Panic]
        ELSE transpose_each(fresh.grid, into_iter(old_grid), previous_bounds)

transpose_new(g) ==
    LET old_grid == g
        fresh == Grid_new(Grid_y_count(g), Grid_x_count(g))
        ob == Grid_boundaries(old_grid)
        previous_bounds ==
            Bounds_new(ob.x_min, x_geometric_len(ob), ob.y_min, y_geometric_len(ob))
    IN  IF fresh.res.kind # "Ok"
        THEN [grid |-> fresh.grid, res |-> Panic]
        ELSE transpose_each(fresh.grid, into_iter(old_grid), previous_bounds)

(***************************************************************************)
(* Specification Spec: one Grid<T> and a caller of its public mutators.    *)
(* A call leaves op (the call and its arguments), res (what it returned)   *)
(* and pre (the grid as it was when the call was made) for the caller to   *)
(* look at; the caller then drops the result and makes the next call.      *)
(***************************************************************************)
\* The in-bounds coordinates of a region and the ring of coordinates around them.
Window(b) ==
    {Coordinate(cx, cy) : cx \in (b.x_min - 1)..(b.x_max + 1),
                          cy \in (b.y_min - 1)..(b.y_max + 1)}

InBounds(b) == {c \in Window(b) : is_within_bounds(b, c)}

NoRegion == Bounds_new(0, 0, 0, 0)
NoQuery == [name |-> "none"]
NoOp == [name |-> "none"]
NoMarker == [current_pos |-> Origin, current_direction |-> "North", bounds |-> NoRegion]

Init ==
    /\ \E m \in 0..MaxCells, n \in 0..MaxCells :
          /\ m * n <= MaxCells
          /\ Len(Grid_new(m, n).grid.grid_data) <= MaxCells
          /\ grid = Grid_new(m, n).grid
          /\ res = Grid_new(m, n).res
          /\ op = [name |-> "new", x_count |-> m, y_count |-> n]
    /\ pre = grid
    /\ region = NoRegion
    /\ query = NoQuery
    /\ cursor = NoMarker

\* The caller is between two calls.
Idle == op = NoOp

StoreElement ==
    /\ Idle
    /\ \E c \in Window(Grid_boundaries(grid)), v \in Elements :
        LET r == store_element(grid, c, v)
        IN  /\ grid' = r.grid
            /\ res' = r.res
            /\ op' = [name |-> "store_element", c |-> c, v |-> v]
    /\ pre' = grid
    /\ UNCHANGED <<region, query, cursor>>

RemoveElement ==
    /\ Idle
    /\ \E c \in Window(Grid_boundaries(grid)) :
        LET r == remove_element(grid, c)
        IN  /\ grid' = r.grid
            /\ res' = r.res
            /\ op' = [name |-> "remove_element", c |-> c]
    /\ pre' = grid
    /\ UNCHANGED <<region, query, cursor>>

MoveElementInDirection ==
    /\ Idle
    /\ \E c \in Window(Grid_boundaries(grid)), d \in Directions :
        LET r == move_element_in_direction(grid, c, d)
        IN  /\ grid' = r.grid
            /\ res' = r.res
            /\ op' = [name |-> "move_element_in_direction", c |-> c, direction |-> d]
    /\ pre' = grid
    /\ UNCHANGED <<region, query, cursor>>

\* A row may be added while the storage stays within MaxCells.
CanGrow == Len(grid.grid_data) + Grid_x_count(grid) <= MaxCells

AddRow ==
    /\ Idle
    /\ CanGrow
    /\ LET r == add_row(grid)
       IN  /\ grid' = r.grid
           /\ res' = r.res
           /\ op' = [name |-> "add_row"]
    /\ pre' = grid
    /\ UNCHANGED <<region, query, cursor>>

ExpandAtRow ==
    /\ Idle
    /\ CanGrow
    /\ \E y \in (Grid_boundaries(grid).y_min - 1)..(Grid_boundaries(grid).y_max + 1) :
        LET r == expand_at_row(grid, y)
        IN  /\ grid' = r.grid
            /\ res' = r.res
            /\ op' = [name |-> "expand_at_row", y_coord |-> y]
    /\ pre' = grid
    /\ UNCHANGED <<region, query, cursor>>

TransposeNew ==
    /\ Idle
    /\ LET r == transpose_new(grid)
       IN  /\ grid' = r.grid
           /\ res' = r.res
           /\ op' = [name |-> "transpose_new"]
    /\ pre' = grid
    /\ UNCHANGED <<region, query, cursor>>

Element ==
    /\ Idle
    /\ \E c \in Window(Grid_boundaries(grid)) :
        /\ res' = element(grid, c)
        /\ op' = [name |-> "element", c |-> c]
    /\ pre' = grid
    /\ UNCHANGED <<grid, region, query, cursor>>

ElementUnchecked ==
    /\ Idle
    /\ \E c \in Window(Grid_boundaries(grid)) :
        /\ res' = element_unchecked(grid, c)
        /\ op' = [name |-> "element_unchecked", c |-> c]
    /\ pre' = grid
    /\ UNCHANGED <<grid, region, query, cursor>>

\* The caller takes a fresh iterator; it borrows the grid until it is dropped.
IterNew ==
    /\ Idle
    /\ op' = [name |-> "iter_new", it |-> GridIter_new(grid),
              yielded |-> << >>, ended |-> 0]
    /\ res' = Ok(None)
    /\ pre' = grid
    /\ UNCHANGED <<grid, region, query, cursor>>

\* One call of next on the iterator the caller holds.
IterNext ==
    /\ op.name = "iter_new"
    /\ op.ended < MaxNextAfterEnd
    /\ With(GridIter_next(op.it, grid), LAMBDA n :
          /\ op' = [op EXCEPT !.it = n.it,
                              !.yielded = IF n.item = None THEN @ ELSE Append(@, n.item[1]),
                              !.ended = IF n.item = None THEN @ + 1 ELSE @]
          /\ res' = Ok(n.item))
    /\ UNCHANGED <<grid, pre, region, query, cursor>>

EmptyRows ==
    /\ Idle
    /\ res' = empty_rows(grid)
    /\ op' = [name |-> "empty_rows"]
    /\ pre' = grid
    /\ UNCHANGED <<grid, region, query, cursor>>

EmptyColumns ==
    /\ Idle
    /\ res' = empty_columns(grid)
    /\ op' = [name |-> "empty_columns"]
    /\ pre' = grid
    /\ UNCHANGED <<grid, region, query, cursor>>

\* The caller drops the returned value; a panic unwinds the caller instead,
\* and nothing runs after it.
Return ==
    /\ ~Idle
    /\ res.kind # "Panic"
    /\ op' = NoOp
    /\ res' = Ok(None)
    /\ pre' = grid
    /\ UNCHANGED <<grid, region, query, cursor>>

Next ==
    \/ StoreElement
    \/ RemoveElement
    \/ MoveElementInDirection
    \/ AddRow
    \/ ExpandAtRow
    \/ TransposeNew
    \/ Element
    \/ ElementUnchecked
    \/ IterNew
    \/ IterNext
    \/ EmptyRows
    \/ EmptyColumns
    \/ Return

Spec == Init /\ [][Next]_vars

(***************************************************************************)
(* Specification SpecBounded: a free-standing Bounds rectangle, grown by   *)
(* its expansion methods and queried through the Bounded contract.         *)
(***************************************************************************)
InitBounded ==
    /\ grid = NoGrid
    /\ pre = NoGrid
    /\ op = NoOp
    /\ res = Ok(None)
    /\ \E x_min \in (-MaxOffset)..MaxOffset, y_min \in (-MaxOffset)..MaxOffset,
          x_len \in 0..MaxLen, y_len \in 0..MaxLen :
          region = Bounds_new(x_min, x_len, y_min, y_len)
    /\ query = [name |-> "new"]
    /\ cursor = NoMarker

CanExpand(dir) ==
    IF dir \in {"North", "South"}
    THEN y_geometric_len(Bounds_boundaries(region)) < MaxLen
    ELSE x_geometric_len(Bounds_boundaries(region)) < MaxLen

ExpandInDirection ==
    \E dir \in Directions :
        /\ CanExpand(dir)
        /\ region' = expand_in_direction(region, dir)
        /\ query' = [name |-> "expand_in_direction", dir |-> dir, before |-> region]
        /\ UNCHANGED <<grid, pre, op, res, cursor>>

AddTopRow ==
    /\ CanExpand("North")
    /\ region' = Bounds_add_top_row(region)
    /\ query' = [name |-> "add_top_row", before |-> region]
    /\ UNCHANGED <<grid, pre, op, res, cursor>>

AddBottomRow ==
    /\ CanExpand("South")
    /\ region' = Bounds_add_bottom_row(region)
    /\ query' = [name |-> "add_bottom_row", before |-> region]
    /\ UNCHANGED <<grid, pre, op, res, cursor>>

CoordinateToIndex ==
    \E c \in Window(Bounds_boundaries(region)) :
        /\ query' = [name |-> "coordinate_to_index", c |-> c,
                     result |-> coordinate_to_index(Bounds_boundaries(region), c)]
        /\ UNCHANGED <<grid, pre, op, res, region, cursor>>

IndexToCoordinate ==
    \E index \in 0..(x_count(Bounds_boundaries(region)) * y_count(Bounds_boundaries(region))) :
        /\ query' = [name |-> "index_to_coordinate", index |-> index,
                     result |-> index_to_coordinate(Bounds_boundaries(region), index)]
        /\ UNCHANGED <<grid, pre, op, res, region, cursor>>

\* OriginCenteredBounds::try_from(region): the rectangle is moved into the
\* conversion, which the caller makes on a copy (Bounds is Copy).
TryFrom ==
    /\ query' = [name |-> "try_from",
                 result |-> OriginCenteredBounds_try_from(region)]
    /\ UNCHANGED <<grid, pre, op, res, region, cursor>>

NextBounded ==
    \/ ExpandInDirection
    \/ AddTopRow
    \/ AddBottomRow
    \/ CoordinateToIndex
    \/ IndexToCoordinate
    \/ TryFrom

SpecBounded == InitBounded /\ [][NextBounded]_vars

(***************************************************************************)
(* Specification SpecCentered: an OriginCenteredBounds built by            *)
(* new(x_count, y_count) and grown by its two expansion methods.  region   *)
(* is the Bounds it wraps; query records the last call, the rectangle it   *)
(* was made on, and how the value came about (the counts given to new and  *)
(* the number of expansions on each axis since).                           *)
(***************************************************************************)
InitCentered ==
    /\ grid = NoGrid
    /\ pre = NoGrid
    /\ op = NoOp
    /\ res = Ok(None)
    /\ cursor = NoMarker
    /\ \E m \in 0..MaxCount, n \in 0..MaxCount :
          /\ OriginCenteredBounds_new(m, n).kind = "Ok"
          /\ region = OriginCenteredBounds_new(m, n).val
          /\ query = [name |-> "new", x_count |-> m, y_count |-> n,
                      horizontal |-> 0, vertical |-> 0,
                      before |-> region, ret |-> FALSE]

ExpandBoundsHorizontally ==
    /\ OriginBounded_x_count(region) < MaxCount
    /\ region' = expand_bounds_horizontally(region).bounds
    /\ query' = [query EXCEPT !.name = "expand_bounds_horizontally",
                              !.horizontal = @ + 1,
                              !.before = region,
                              !.ret = expand_bounds_horizontally(region).ret]
    /\ UNCHANGED <<grid, pre, op, res, cursor>>

ExpandBoundsVertically ==
    /\ OriginBounded_y_count(region) < MaxCount
    /\ region' = expand_bounds_vertically(region).bounds
    /\ query' = [query EXCEPT !.name = "expand_bounds_vertically",
                              !.vertical = @ + 1,
                              !.before = region,
                              !.ret = expand_bounds_vertically(region).ret]
    /\ UNCHANGED <<grid, pre, op, res, cursor>>

NextCentered ==
    \/ ExpandBoundsHorizontally
    \/ ExpandBoundsVertically

SpecCentered == InitCentered /\ [][NextCentered]_vars

(***************************************************************************)
(* Specification SpecCursor: a BoundedMovingObject built by new, moved by  *)
(* move_in_absolute_direction and re-bounded through DynamicallyBounded.   *)
(* query records the last call, its arguments, what it returned and the    *)
(* cursor it was made on, until the caller drops it and calls again.       *)
(***************************************************************************)
Extents == (-MaxExtent)..MaxExtent

\* The rectangles handed to the cursor, as their four scalar boundaries.
Rectangles ==
    {b \in [x_min : Extents, x_max : Extents, y_min : Extents, y_max : Extents] :
        b.x_min <= b.x_max /\ b.y_min <= b.y_max}

InitCursor ==
    /\ grid = NoGrid
    /\ pre = NoGrid
    /\ op = NoOp
    /\ res = Ok(None)
    /\ region = NoRegion
    /\ \E b \in Rectangles :
          /\ cursor = BoundedMovingObject_new(b.x_min, b.x_max, b.y_min, b.y_max).val
          /\ query = [name |-> "new", before |-> cursor]

\* Boundaries offered to a setter: every value of the window and one beyond.
Offered == (-(MaxExtent + 1))..(MaxExtent + 1)

\* A coordinates_in_direction_from call is inside its loop.
InLoop == query.name = "coordinates_in_direction_from" /\ ~query.state.done

\* The caller has looked at the result of the last call and dropped it.
DropResult ==
    /\ query # NoQuery
    /\ ~InLoop
    /\ query' = NoQuery
    /\ UNCHANGED <<grid, pre, op, res, region, cursor>>

\* The caller is between two calls, and the rectangle of the cursor has not
\* outgrown the window of the model.
CanRebound ==
    /\ query = NoQuery
    /\ Marker_boundaries(cursor).x_max <= MaxExtent
    /\ Marker_boundaries(cursor).y_max <= MaxExtent

MoveInAbsoluteDirection ==
    \E direction \in Directions, magnitude \in 0..MaxMagnitude :
        LET mv == move_in_absolute_direction(cursor, direction, magnitude)
        IN  /\ query = NoQuery
            /\ cursor' = mv.marker
            /\ query' = [name |-> "move_in_absolute_direction",
                         direction |-> direction, magnitude |-> magnitude,
                         kind |-> mv.kind, ret |-> mv.ret, before |-> cursor]
            /\ UNCHANGED <<grid, pre, op, res, region>>

SetXMinBoundary ==
    /\ CanRebound
    /\ \E boundary \in Offered :
          With(set_x_min_boundary(cursor, boundary), LAMBDA r :
              /\ cursor' = r.marker
              /\ query' = [name |-> "set_x_min_boundary", boundary |-> boundary,
                           result |-> r.res, before |-> cursor]
              /\ UNCHANGED <<grid, pre, op, res, region>>)

SetXMaxBoundary ==
    /\ CanRebound
    /\ \E boundary \in Offered :
          With(set_x_max_boundary(cursor, boundary), LAMBDA r :
              /\ cursor' = r.marker
              /\ query' = [name |-> "set_x_max_boundary", boundary |-> boundary,
                           result |-> r.res, before |-> cursor]
              /\ UNCHANGED <<grid, pre, op, res, region>>)

SetYMinBoundary ==
    /\ CanRebound
    /\ \E boundary \in Offered :
          With(set_y_min_boundary(cursor, boundary), LAMBDA r :
              /\ cursor' = r.marker
              /\ query' = [name |-> "set_y_min_boundary", boundary |-> boundary,
                           result |-> r.res, before |-> cursor]
              /\ UNCHANGED <<grid, pre, op, res, region>>)

SetYMaxBoundary ==
    /\ CanRebound
    /\ \E boundary \in Offered :
          With(set_y_max_boundary(cursor, boundary), LAMBDA r :
              /\ cursor' = r.marker
              /\ query' = [name |-> "set_y_max_boundary", boundary |-> boundary,
                           result |-> r.res, before |-> cursor]
              /\ UNCHANGED <<grid, pre, op, res, region>>)

InheritBoundaries ==
    /\ CanRebound
    /\ \E bounded \in Rectangles :
          With(inherit_boundaries(cursor, bounded), LAMBDA r :
              /\ cursor' = r.marker
              /\ query' = [name |-> "inherit_boundaries", bounded |-> bounded,
                           result |-> r.res, before |-> cursor]
              /\ UNCHANGED <<grid, pre, op, res, region>>)

Turn ==
    /\ query = NoQuery
    /\ \E dir \in {"Left", "Right"} :
          /\ cursor' = turn(cursor, dir)
          /\ query' = [name |-> "turn", dir |-> dir, before |-> cursor]
    /\ UNCHANGED <<grid, pre, op, res, region>>

SetCurrentXToXMin ==
    /\ query = NoQuery
    /\ cursor' = set_current_x_to_x_min(cursor)
    /\ query' = [name |-> "set_current_x_to_x_min", before |-> cursor]
    /\ UNCHANGED <<grid, pre, op, res, region>>

SetCurrentXToXMax ==
    /\ query = NoQuery
    /\ cursor' = set_current_x_to_x_max(cursor)
    /\ query' = [name |-> "set_current_x_to_x_max", before |-> cursor]
    /\ UNCHANGED <<grid, pre, op, res, region>>

SetCurrentYToYMin ==
    /\ query = NoQuery
    /\ cursor' = set_current_y_to_y_min(cursor)
    /\ query' = [name |-> "set_current_y_to_y_min", before |-> cursor]
    /\ UNCHANGED <<grid, pre, op, res, region>>

SetCurrentYToYMax ==
    /\ query = NoQuery
    /\ cursor' = set_current_y_to_y_max(cursor)
    /\ query' = [name |-> "set_current_y_to_y_max", before |-> cursor]
    /\ UNCHANGED <<grid, pre, op, res, region>>

BoundedNeighbors ==
    /\ query = NoQuery
    /\ query' = [name |-> "bounded_neighbors", result |-> bounded_neighbors(cursor),
                 before |-> cursor]
    /\ UNCHANGED <<grid, pre, op, res, region, cursor>>

NextCursor ==
    \/ MoveInAbsoluteDirection
    \/ Turn
    \/ SetCurrentXToXMin
    \/ SetCurrentXToXMax
    \/ SetCurrentYToYMin
    \/ SetCurrentYToYMax
    \/ BoundedNeighbors
    \/ SetXMinBoundary
    \/ SetXMaxBoundary
    \/ SetYMinBoundary
    \/ SetYMaxBoundary
    \/ InheritBoundaries
    \/ DropResult

SpecCursor == InitCursor /\ [][NextCursor]_vars

(***************************************************************************)
(* Specification SpecRows: a Grid<T> built from a list of rows by          *)
(* Grid::try_from and then read cell by cell.  op holds the rows, res the  *)
(* kind of the Result, grid the grid of an Ok; query the last read.        *)
(***************************************************************************)
\* The rows of up to MaxRowLen cells.
Rows ==
    UNION {[1..n -> {None} \cup {Some(e) : e \in Elements}] : n \in 0..MaxRowLen}

\* The lists of up to MaxRows rows, ragged ones included.
RowLists == UNION {[1..n -> Rows] : n \in 0..MaxRows}

InitRows ==
    /\ \E rows \in RowLists :
          With(Grid_try_from(rows), LAMBDA result :
              /\ op = [name |-> "try_from", rows |-> rows]
              /\ res = [kind |-> result.kind]
              /\ grid = IF result.kind = "Ok" THEN result.val ELSE NoGrid)
    /\ pre = NoGrid
    /\ region = NoRegion
    /\ query = NoQuery
    /\ cursor = NoMarker

\* Grid::element on the grid of a successful conversion.
ElementOfRows ==
    /\ op.name = "try_from"
    /\ res.kind = "Ok"
    /\ query = NoQuery
    /\ \E c \in Window(Grid_boundaries(grid)) :
          query' = [name |-> "element", c |-> c, result |-> element(grid, c)]
    /\ UNCHANGED <<grid, pre, op, res, region, cursor>>

\* Grid::add_row on the grid of a successful conversion, and on what came
\* of it.
AddRowOfRows ==
    /\ res.kind = "Ok"
    /\ query = NoQuery
    /\ Grid_y_count(grid) <= MaxRows
    /\ With(add_row(grid), LAMBDA r :
          /\ grid' = r.grid
          /\ res' = r.res
          /\ op' = [name |-> "add_row", rows |-> op.rows])
    /\ pre' = grid
    /\ UNCHANGED <<region, query, cursor>>

NextRows ==
    \/ ElementOfRows
    \/ AddRowOfRows
    \/ DropResult

SpecRows == InitRows /\ [][NextRows]_vars

(***************************************************************************)
(* Specification SpecNeighbors: a Bounds rectangle asked for the           *)
(* neighbours of a coordinate and for the coordinates in a direction.  The *)
(* loop of coordinates_in_direction_from is taken one turn at a time; the  *)
(* code runs it to its break without interruption, hence the fairness.     *)
(***************************************************************************)
InitNeighbors ==
    /\ grid = NoGrid
    /\ pre = NoGrid
    /\ op = NoOp
    /\ res = Ok(None)
    /\ cursor = NoMarker
    /\ \E b \in Rectangles :
          region = Bounds_new(b.x_min, b.x_max - b.x_min, b.y_min, b.y_max - b.y_min)
    /\ query = [name |-> "new"]

BoundedNeighborsTo ==
    /\ query = NoQuery
    /\ \E coordinate \in Window(Bounds_boundaries(region)) :
          query' = [name |-> "bounded_neighbors_to", coordinate |-> coordinate,
                    result |-> bounded_neighbors_to(Bounds_boundaries(region), coordinate)]
    /\ UNCHANGED <<grid, pre, op, res, region, cursor>>

\* The call, up to the loop.
CoordinatesInDirectionFrom ==
    /\ query = NoQuery
    /\ \E coordinate \in Window(Bounds_boundaries(region)), direction \in Directions :
          query' = [name |-> "coordinates_in_direction_from",
                    coordinate |-> coordinate, direction |-> direction,
                    state |-> coordinates_in_direction_from_entry(coordinate)]
    /\ UNCHANGED <<grid, pre, op, res, region, cursor>>

\* One turn of the loop; at the break the vector is returned.
CoordinatesInDirectionFromLoop ==
    /\ InLoop
    /\ query' = [query EXCEPT !.state =
                    coordinates_in_direction_from_step(
                        Bounds_boundaries(region), query.direction, @)]
    /\ UNCHANGED <<grid, pre, op, res, region, cursor>>

NextNeighbors ==
    \/ BoundedNeighborsTo
    \/ CoordinatesInDirectionFrom
    \/ CoordinatesInDirectionFromLoop
    \/ DropResult

SpecNeighbors ==
    InitNeighbors /\ [][NextNeighbors]_vars /\ WF_vars(CoordinatesInDirectionFromLoop)

(***************************************************************************)
(* Vocabulary of the properties.                                           *)
(***************************************************************************)
\* How many cells of g hold each element value.
ElementBag(g) ==
    [v \in Elements |->
        Cardinality({i \in 1..Len(g.grid_data) :
                        g.grid_data[i] = GridCoordinate_Object(v)})]

\* The centring rule on one axis with boundaries lo..hi.
CenteredAxis(lo, hi) ==
    LET count == hi - lo + 1
    IN  /\ count % 2 = 1 => hi = -lo
        /\ count % 2 = 0 => hi = -lo + 1

OccupiedCount(g) ==
    Cardinality({i \in 1..Len(g.grid_data) : g.grid_data[i].kind = "Object"})

\* Some(v) when the cell at the in-bounds coordinate c holds v, None when empty.
Occupant(g, c) == element_unchecked(g, c).val

\* Same boundaries and, at every coordinate, the same occupancy and element
\* (two equal grids trivially so).
SameContents(g, h) ==
    \/ g = h
    \/ /\ Grid_boundaries(g) = Grid_boundaries(h)
       /\ Grid_x_count(g) = Grid_x_count(h)
       /\ Grid_y_count(g) = Grid_y_count(h)
       /\ Len(g.grid_data) = Len(h.grid_data)
       /\ \A c \in InBounds(Grid_boundaries(g)) : Occupant(g, c) = Occupant(h, c)

\* The coordinate of a grid at matrix-like position (mx, my): mx columns east
\* of the west edge, my rows south of the north edge.
AtMatrixLike(g, mx, my) ==
    Coordinate(Grid_boundaries(g).x_min + mx, Grid_boundaries(g).y_max - my)

(***************************************************************************)
(* Properties of Spec.                                                     *)
(***************************************************************************)
\* C1: in every reachable state the boundaries the grid reports satisfy the
\* centring rule on both axes: with count = max - min + 1 (the grid's own
\* x_count / y_count), max = -min when the count is odd and max = -min + 1
\* when it is even.
C1_CenteringRule ==
    LET b == Grid_boundaries(grid)
    IN  /\ Grid_x_count(grid) = b.x_max - b.x_min + 1
        /\ Grid_y_count(grid) = b.y_max - b.y_min + 1
        /\ CenteredAxis(b.x_min, b.x_max)
        /\ CenteredAxis(b.y_min, b.y_max)

\* A 3 x 1 grid grown to an even number of rows by expand_at_row.
C1_Witness ==
    /\ op.name = "expand_at_row"
    /\ res.kind = "Ok"
    /\ Grid_x_count(grid) = 3
    /\ Grid_y_count(grid) = 2
    /\ OccupiedCount(grid) = 3

\* C2: in every reachable state the length of the cell storage equals
\* x_count * y_count of the grid's bounds.
C2_StorageLength ==
    Len(grid.grid_data) = Grid_x_count(grid) * Grid_y_count(grid)

\* add_row has appended a bottom row to a grid of two columns.
C2_Witness ==
    /\ op.name = "add_row"
    /\ res = Ok(FALSE)
    /\ Grid_x_count(grid) = 2
    /\ Len(grid.grid_data) = Len(pre.grid_data) + 2

\* The boundaries C3 expects on an axis of c coordinates.
ExpectedMin(c) == IF c % 2 = 1 THEN -(c \div 2) ELSE -((c \div 2) - 1)
ExpectedMax(c) == c \div 2

\* C3: Grid::new(m, n) with m, n >= 1 has x_count() = m and y_count() = n, and
\* on each axis of count c the boundaries are [-(c/2), c/2] for odd c and
\* [-(c/2 - 1), c/2] for even c, so max - min = c - 1.
C3_NewCountsAndBoundaries ==
    (op.name = "new" /\ op.x_count >= 1 /\ op.y_count >= 1) =>
        LET b == Grid_boundaries(grid)
        IN  /\ res.kind = "Ok"
            /\ Grid_x_count(grid) = op.x_count
            /\ Grid_y_count(grid) = op.y_count
            /\ x_count(b) = op.x_count
            /\ y_count(b) = op.y_count
            /\ b.x_min = ExpectedMin(op.x_count)
            /\ b.x_max = ExpectedMax(op.x_count)
            /\ b.y_min = ExpectedMin(op.y_count)
            /\ b.y_max = ExpectedMax(op.y_count)
            /\ b.x_max - b.x_min = op.x_count - 1
            /\ b.y_max - b.y_min = op.y_count - 1

\* Grid::new(2, 3): an even and an odd count.
C3_Witness ==
    /\ op = [name |-> "new", x_count |-> 2, y_count |-> 3]
    /\ Grid_boundaries(grid) = [x_min |-> 0, x_max |-> 1, y_min |-> -1, y_max |-> 1]

\* C6: applying transpose_new twice yields a grid with the original x_count and
\* y_count in which a coordinate is occupied iff it was occupied originally,
\* holding the same element.  Checked for a second transpose of every grid
\* that transpose_new has just produced, and for two transposes of every grid
\* the caller holds between calls.
C6_DoubleTranspose ==
    /\ op.name = "transpose_new" =>
          /\ res.kind = "Ok"
          /\ transpose_new(grid).res.kind = "Ok"
          /\ SameContents(transpose_new(grid).grid, pre)
    /\ Idle =>
          /\ transpose_new(transpose_new(grid).grid).res.kind = "Ok"
          /\ SameContents(transpose_new(transpose_new(grid).grid).grid, grid)

\* transpose_new has acted on a 3 x 2 grid holding both element values and an
\* empty cell.
C6_Witness ==
    /\ op.name = "transpose_new"
    /\ Grid_x_count(pre) = 3
    /\ Grid_y_count(pre) = 2
    /\ Occupant(pre, Coordinate(-1, 1)) = Some(1)
    /\ Occupant(pre, Coordinate(1, 0)) = Some(2)
    /\ OccupiedCount(pre) = 2

\* C7: transpose_new on an m-by-n grid produces a grid with x_count = n and
\* y_count = m in which the element that was at matrix-like position (mx, my)
\* is at matrix-like position (my, mx); the number of occupied cells is
\* unchanged and no other cell is occupied.
C7_TransposeRemap ==
    op.name = "transpose_new" =>
        /\ res.kind = "Ok"
        /\ Grid_x_count(grid) = Grid_y_count(pre)
        /\ Grid_y_count(grid) = Grid_x_count(pre)
        /\ OccupiedCount(grid) = OccupiedCount(pre)
        /\ \A mx \in 0..(Grid_x_count(pre) - 1), my \in 0..(Grid_y_count(pre) - 1) :
              Occupant(grid, AtMatrixLike(grid, my, mx))
                  = Occupant(pre, AtMatrixLike(pre, mx, my))

\* transpose_new has moved the element of the north-east corner of a 2 x 3
\* grid to the south-west corner of the 3 x 2 result.
C7_Witness ==
    /\ op.name = "transpose_new"
    /\ Grid_x_count(pre) = 2
    /\ Grid_y_count(pre) = 3
    /\ Occupant(pre, Coordinate(1, 1)) = Some(2)
    /\ Occupant(pre, Coordinate(0, -1)) = Some(1)
    /\ OccupiedCount(pre) = 2
    /\ Occupant(grid, Coordinate(-1, 0)) = Some(2)

\* C8: move_element_in_direction leaves the total number of occupied cells
\* unchanged, whether it returns Ok or any error.
C8_MoveKeepsCount ==
    op.name = "move_element_in_direction" =>
        /\ res.kind # "Panic"
        /\ OccupiedCount(grid) = OccupiedCount(pre)

\* A move onto an occupied cell.
C8_Witness ==
    /\ op.name = "move_element_in_direction"
    /\ res = CollisionError
    /\ OccupiedCount(pre) = 2

\* C9: whenever move_element_in_direction returns an error (OutOfBounds,
\* Collision or Unoccupied) the grid is unchanged: same bounds and, at every
\* coordinate, the same occupancy and element as before the call (the storage
\* is even cell for cell what it was); on Collision source and destination keep
\* their elements.
C9_FailedMoveChangesNothing ==
    (op.name = "move_element_in_direction" /\ IsErr(res)) =>
        /\ grid = pre
        /\ grid.bounds = pre.bounds
        /\ SameContents(grid, pre)
        /\ res = CollisionError =>
              /\ Occupant(grid, op.c) = Occupant(pre, op.c)
              /\ Occupant(grid, coordinate_in_direction(op.c, op.direction, 1))
                    = Occupant(pre, coordinate_in_direction(op.c, op.direction, 1))
              /\ Occupant(grid, coordinate_in_direction(op.c, op.direction, 1)) # None

\* A collision between two different elements.
C9_Witness ==
    /\ op.name = "move_element_in_direction"
    /\ res = CollisionError
    /\ Occupant(pre, op.c) = Some(1)
    /\ Occupant(pre, coordinate_in_direction(op.c, op.direction, 1)) = Some(2)

\* C10: when the source c is occupied and the coordinate d one step from c in
\* the given direction is inside the bounds and empty, the move returns Ok(d);
\* afterwards c is empty, d holds the element that was at c, and every other
\* cell and the bounds are unchanged.
C10_SuccessfulMove ==
    op.name = "move_element_in_direction" =>
        LET b == Grid_boundaries(pre)
            c == op.c
            d == coordinate_in_direction(op.c, op.direction, 1)
        IN  (/\ is_within_bounds(b, c)
             /\ Occupant(pre, c) # None
             /\ is_within_bounds(b, d)
             /\ Occupant(pre, d) = None)
            => /\ res = Ok(d)
               /\ grid.bounds = pre.bounds
               /\ Grid_boundaries(grid) = b
               /\ Len(grid.grid_data) = Len(pre.grid_data)
               /\ Occupant(grid, c) = None
               /\ Occupant(grid, d) = Occupant(pre, c)
               /\ \A e \in InBounds(b) \ {c, d} : Occupant(grid, e) = Occupant(pre, e)

\* An element has moved next to another one, which stayed where it was.
C10_Witness ==
    /\ op.name = "move_element_in_direction"
    /\ res.kind = "Ok"
    /\ OccupiedCount(pre) = 2
    /\ Occupant(grid, res.val) = Some(2)
    /\ Occupant(pre, res.val) = None
    /\ Grid_x_count(grid) = 3
    /\ Grid_y_count(grid) = 2

\* C11: when the source c is inside the bounds and the coordinate one step from
\* c in the given direction is outside them, move_element_in_direction fails
\* with OutOfBounds carrying that would-be destination, whether or not c is
\* occupied; it never reports Collision.
C11_MoveOffTheEdge ==
    op.name = "move_element_in_direction" =>
        LET b == Grid_boundaries(pre)
            d == coordinate_in_direction(op.c, op.direction, 1)
        IN  (is_within_bounds(b, op.c) /\ ~is_within_bounds(b, d))
            => /\ res = OutOfBoundsError(d)
               /\ res # CollisionError

\* The sole occupant of a 1 x 1 grid has been asked to move South.
C11_Witness ==
    /\ op = [name |-> "move_element_in_direction", c |-> Origin, direction |-> "South"]
    /\ Grid_x_count(pre) = 1
    /\ Grid_y_count(pre) = 1
    /\ Occupant(pre, Origin) # None
    /\ res = OutOfBoundsError(Coordinate(0, -1))

\* C12: store_element(c, v) fails with OutOfBounds and leaves the grid
\* unchanged when c is outside the bounds; otherwise it succeeds (an occupied
\* cell is no collision), the cell at c holds v afterwards, every other cell and
\* the bounds are unchanged, and the result is Some(previous element) when c was
\* occupied and None when it was empty.
C12_StoreElement ==
    op.name = "store_element" =>
        LET b == Grid_boundaries(pre)
        IN  IF ~is_within_bounds(b, op.c)
            THEN /\ res = OutOfBoundsError(op.c)
                 /\ grid = pre
            ELSE /\ res = Ok(Occupant(pre, op.c))
                 /\ Occupant(grid, op.c) = Some(op.v)
                 /\ grid.bounds = pre.bounds
                 /\ Len(grid.grid_data) = Len(pre.grid_data)
                 /\ \A e \in InBounds(b) \ {op.c} :
                       /\ Occupant(grid, e) = Occupant(pre, e)
                       /\ grid.grid_data[coordinate_to_index(b, e).val + 1]
                             = pre.grid_data[coordinate_to_index(b, e).val + 1]

\* An occupied cell has been overwritten and its previous element handed back.
C12_Witness ==
    /\ op.name = "store_element"
    /\ op.v = 2
    /\ res = Ok(Some(1))
    /\ Occupant(grid, op.c) = Some(2)
    /\ OccupiedCount(pre) = 2

\* C13: remove_element(c) fails with OutOfBounds when c is outside the bounds
\* and with Unoccupied when the cell at c is empty, and the grid is then what it
\* was; otherwise it returns the element that was at c, the cell becomes
\* Empty(c), the number of occupied cells drops by exactly one and every other
\* cell and the bounds are unchanged.
C13_RemoveElement ==
    op.name = "remove_element" =>
        LET b == Grid_boundaries(pre)
        IN  IF ~is_within_bounds(b, op.c)
            THEN /\ res = OutOfBoundsError(op.c)
                 /\ grid = pre
            ELSE IF Occupant(pre, op.c) = None
            THEN /\ res = UnoccupiedError(op.c)
                 /\ grid = pre
            ELSE /\ res = Ok(Occupant(pre, op.c)[1])
                 /\ grid.grid_data[coordinate_to_index(b, op.c).val + 1]
                       = GridCoordinate_Empty(op.c)
                 /\ OccupiedCount(grid) = OccupiedCount(pre) - 1
                 /\ grid.bounds = pre.bounds
                 /\ Len(grid.grid_data) = Len(pre.grid_data)
                 /\ \A e \in InBounds(b) \ {op.c} :
                       grid.grid_data[coordinate_to_index(b, e).val + 1]
                           = pre.grid_data[coordinate_to_index(b, e).val + 1]

\* One of two elements has been removed from a cell away from the origin.
C13_Witness ==
    /\ op.name = "remove_element"
    /\ op.c # Origin
    /\ res = Ok(2)
    /\ OccupiedCount(pre) = 2
    /\ OccupiedCount(grid) = 1
    /\ Occupant(grid, op.c) = None

\* C14: for a coordinate outside the bounds element returns an OutOfBounds
\* error value while element_unchecked panics; for a coordinate inside the
\* bounds the two agree: element returns Ok(v) iff element_unchecked returns
\* Some(v), and element returns Unoccupied iff element_unchecked returns None.
C14_CheckedAndUnchecked ==
    /\ op.name = "element" =>
          IF ~is_within_bounds(Grid_boundaries(grid), op.c)
          THEN /\ res = OutOfBoundsError(op.c)
               /\ element_unchecked(grid, op.c) = Panic
          ELSE /\ res.kind \in {"Ok", "UnoccupiedError"}
               /\ element_unchecked(grid, op.c).kind = "Ok"
               /\ \A v \in Elements :
                     res = Ok(v) <=> element_unchecked(grid, op.c) = Ok(Some(v))
               /\ res = UnoccupiedError(op.c) <=> element_unchecked(grid, op.c) = Ok(None)
    /\ op.name = "element_unchecked" =>
          IF ~is_within_bounds(Grid_boundaries(grid), op.c)
          THEN /\ res = Panic
               /\ element(grid, op.c) = OutOfBoundsError(op.c)
          ELSE /\ res.kind = "Ok"
               /\ res.val = None \/ \E v \in Elements : res.val = Some(v)
               /\ \A v \in Elements :
                     res = Ok(Some(v)) <=> element(grid, op.c) = Ok(v)
               /\ res = Ok(None) <=> element(grid, op.c) = UnoccupiedError(op.c)

\* element_unchecked has panicked on a coordinate outside a grid that holds an
\* element.
C14_Witness ==
    /\ op.name = "element_unchecked"
    /\ ~is_within_bounds(Grid_boundaries(grid), op.c)
    /\ res = Panic
    /\ OccupiedCount(grid) = 1

\* C15: for every grid state and every row argument y, expand_at_row(y) leaves
\* the number of occupied cells and the multiset of stored elements unchanged,
\* increases y_count by exactly one and leaves x_count unchanged, whichever
\* side grows.
C15_ExpandKeepsElements ==
    op.name = "expand_at_row" =>
        /\ OccupiedCount(grid) = OccupiedCount(pre)
        /\ ElementBag(grid) = ElementBag(pre)
        /\ Grid_y_count(grid) = Grid_y_count(pre) + 1
        /\ Grid_x_count(grid) = Grid_x_count(pre)
        /\ y_count(Grid_boundaries(grid)) = y_count(Grid_boundaries(pre)) + 1
        /\ x_count(Grid_boundaries(grid)) = x_count(Grid_boundaries(pre))

\* A grid of two rows holding both element values has been expanded.
C15_Witness ==
    /\ op.name = "expand_at_row"
    /\ Grid_y_count(pre) = 2
    /\ Grid_x_count(pre) = 2
    /\ ElementBag(pre) = [v \in Elements |-> 1]
    /\ Grid_y_count(grid) = 3

\* Where expand_at_row(y) is said to put the element of c.
C16_Relocated(c, y, north) ==
    IF north
    THEN IF c.y >= y THEN coordinate_in_direction(c, "North", 1) ELSE c
    ELSE IF c.y <= y THEN coordinate_in_direction(c, "South", 1) ELSE c

\* C16: if y_count was odd before expand_at_row(y) the grid grows North, the
\* call returns true, every element with coordinate.y >= y moves one step North
\* and every element with coordinate.y < y keeps its coordinate; if y_count was
\* even the grid grows South, the call returns false, every element with
\* coordinate.y <= y moves one step South and every element with
\* coordinate.y > y keeps its coordinate.  No other cell is occupied afterwards.
C16_ExpandRelocation ==
    op.name = "expand_at_row" =>
        LET b     == Grid_boundaries(pre)
            a     == Grid_boundaries(grid)
            north == Grid_y_count(pre) % 2 = 1
        IN  /\ res = Ok(north)
            /\ a.y_max = IF north THEN b.y_max + 1 ELSE b.y_max
            /\ a.y_min = IF north THEN b.y_min ELSE b.y_min - 1
            /\ \A c \in InBounds(b) :
                  Occupant(pre, c) # None =>
                      /\ is_within_bounds(a, C16_Relocated(c, op.y_coord, north))
                      /\ Occupant(grid, C16_Relocated(c, op.y_coord, north))
                            = Occupant(pre, c)
            /\ \A d \in InBounds(a) :
                  Occupant(grid, d) # None =>
                      \E c \in InBounds(b) :
                          /\ Occupant(pre, c) # None
                          /\ d = C16_Relocated(c, op.y_coord, north)

\* A column of three rows expanded at row 0: the element at row 0 has moved
\* North, the one below has stayed.
C16_Witness ==
    /\ op = [name |-> "expand_at_row", y_coord |-> 0]
    /\ Grid_x_count(pre) = 1
    /\ Grid_y_count(pre) = 3
    /\ Occupant(pre, Coordinate(0, -1)) = Some(1)
    /\ Occupant(pre, Coordinate(0, 0)) = Some(2)
    /\ Occupant(pre, Coordinate(0, 1)) = None
    /\ res = Ok(TRUE)
    /\ Occupant(grid, Coordinate(0, 1)) = Some(2)
    /\ Occupant(grid, Coordinate(0, -1)) = Some(1)

\* C17: for every reachable grid state (any shape, any occupancy, full rows and
\* columns included) and every y, inside or outside the bounds, none of the
\* relocations inside expand_at_row(y) returns Collision, OutOfBounds or
\* Unoccupied: the unwrap in expand_at_row never panics.
C17_ExpandNeverPanics ==
    op.name = "expand_at_row" =>
        /\ res.kind = "Ok"
        /\ IF add_row(pre).res.val
           THEN move_elements_above_row_in_direction(
                    add_row(pre).grid, op.y_coord, "North").res = Ok(None)
           ELSE move_elements_below_row_in_direction(
                    add_row(pre).grid, op.y_coord, "South").res = Ok(None)

\* A fully occupied column of two rows expanded at a row above the bounds:
\* both elements had to move South.
C17_Witness ==
    /\ op = [name |-> "expand_at_row", y_coord |-> 2]
    /\ Grid_x_count(pre) = 1
    /\ Grid_y_count(pre) = 2
    /\ OccupiedCount(pre) = 2
    /\ res = Ok(FALSE)
    /\ Occupant(grid, Coordinate(0, 1)) = None
    /\ OccupiedCount(grid) = 2

C19_IterationOrder ==
    op.name = "iter_new" =>
        LET b == Grid_boundaries(grid)
            n == Grid_x_count(grid) * Grid_y_count(grid)
            k == Len(op.yielded)
        IN  /\ k <= n
            /\ \A i \in 1..k :
                  With(index_to_coordinate(b, i - 1), LAMBDA c :
                      /\ c.kind = "Ok"
                      /\ op.yielded[i] = << c.val, Occupant(grid, c.val) >>)
            /\ k >= 1 => op.yielded[1][1] = northwest_corner(b)
            /\ k = n =>
                  /\ op.yielded[n][1] = southeast_corner(b)
                  /\ Cardinality({i \in 1..k : op.yielded[i][1] = southeast_corner(b)}) = 1
                  /\ GridIter_next(op.it, grid).item = None
            /\ k < n =>
                  /\ op.ended = 0
                  /\ GridIter_next(op.it, grid).item # None
            /\ op.ended > 0 => k = n /\ res = Ok(None)
            /\ With(iter_new(grid), LAMBDA again :
                  /\ Len(again) = n
                  /\ SubSeq(again, 1, k) = op.yielded)

\* An iterator over a 2 x 2 grid with one element has yielded its four items
\* and has then been asked twice more.
C19_Witness ==
    /\ op.name = "iter_new"
    /\ op.ended >= 2
    /\ Len(op.yielded) = 4
    /\ Grid_x_count(grid) = 2
    /\ Grid_y_count(grid) = 2
    /\ op.yielded[4] = << Coordinate(1, 0), Some(1) >>

\* A sequence of integers in strictly ascending order.
StrictlyAscending(s) == \A i, j \in 1..Len(s) : i < j => s[i] < s[j]

\* C20: for every grid state empty_rows returns, in strictly ascending order
\* and without duplicates, exactly the y values in [y_min, y_max] whose row
\* holds no occupied cell, and empty_columns returns in strictly ascending order
\* exactly the x values in [x_min, x_max] whose column holds no occupied cell.
C20_EmptyRowsAndColumns ==
    LET b == Grid_boundaries(grid)
    IN  /\ op.name = "empty_rows" =>
              /\ res.kind = "Ok"
              /\ StrictlyAscending(res.val)
              /\ {res.val[i] : i \in 1..Len(res.val)}
                    = {cy \in b.y_min..b.y_max :
                          \A cx \in b.x_min..b.x_max :
                              Occupant(grid, Coordinate(cx, cy)) = None}
        /\ op.name = "empty_columns" =>
              /\ res.kind = "Ok"
              /\ StrictlyAscending(res.val)
              /\ {res.val[i] : i \in 1..Len(res.val)}
                    = {cx \in b.x_min..b.x_max :
                          \A cy \in b.y_min..b.y_max :
                              Occupant(grid, Coordinate(cx, cy)) = None}

\* empty_rows on a 2 x 3 grid whose only element sits at the east end of the
\* middle row.
C20_Witness ==
    /\ op.name = "empty_rows"
    /\ Grid_x_count(grid) = 2
    /\ Grid_y_count(grid) = 3
    /\ OccupiedCount(grid) = 1
    /\ Occupant(grid, Coordinate(1, 0)) # None
    /\ res = Ok(<< -1, 1 >>)

(***************************************************************************)
(* Properties of SpecBounded.                                              *)
(***************************************************************************)
\* C4: for every coordinate c inside the bounds
\* index_to_coordinate(coordinate_to_index(c)) = c, and coordinate_to_index
\* restricted to the in-bounds coordinates is a bijection onto
\* 0 .. x_count * y_count - 1.
C4_IndexRoundTrip ==
    LET b == Bounds_boundaries(region)
        n == x_count(b) * y_count(b)
        Index(c) == coordinate_to_index(b, c)
    IN  /\ \A c \in InBounds(b) :
              /\ Index(c).kind = "Ok"
              /\ index_to_coordinate(b, Index(c).val) = Ok(c)
        /\ \A c1, c2 \in InBounds(b) : Index(c1) = Index(c2) => c1 = c2
        /\ {Index(c).val : c \in InBounds(b)} = 0..(n - 1)
        /\ (query.name = "coordinate_to_index" /\ query.result.kind = "Ok") =>
              index_to_coordinate(b, query.result.val) = Ok(query.c)

\* The last index of an off-centre 2 x 3 rectangle has been computed.
C4_Witness ==
    /\ query.name = "coordinate_to_index"
    /\ query.result = Ok(5)
    /\ Bounds_boundaries(region) = [x_min |-> 1, x_max |-> 2, y_min |-> -2, y_max |-> 0]

\* C5: for every in-bounds coordinate (x, y) coordinate_to_index returns
\* (y_max - y) * x_count + (x - x_min), so the corners map to 0, x_count - 1,
\* x_count * y_count - x_count and x_count * y_count - 1; for a coordinate
\* outside the bounds it returns an OutOfBounds error carrying that coordinate.
C5_IndexFormula ==
    LET b  == Bounds_boundaries(region)
        xc == b.x_max - b.x_min + 1
        yc == b.y_max - b.y_min + 1
    IN  /\ \A c \in Window(b) :
              IF b.x_min <= c.x /\ c.x <= b.x_max /\ b.y_min <= c.y /\ c.y <= b.y_max
              THEN coordinate_to_index(b, c) = Ok((b.y_max - c.y) * xc + (c.x - b.x_min))
              ELSE coordinate_to_index(b, c) = OutOfBoundsError(c)
        /\ coordinate_to_index(b, Coordinate(b.x_min, b.y_max)) = Ok(0)
        /\ coordinate_to_index(b, Coordinate(b.x_max, b.y_max)) = Ok(xc - 1)
        /\ coordinate_to_index(b, Coordinate(b.x_min, b.y_min)) = Ok(xc * yc - xc)
        /\ coordinate_to_index(b, Coordinate(b.x_max, b.y_min)) = Ok(xc * yc - 1)
        /\ query.name = "coordinate_to_index" =>
              query.result = coordinate_to_index(b, query.c)

\* The south-west corner of an off-centre 3 x 2 rectangle has been looked up.
C5_Witness ==
    /\ query.name = "coordinate_to_index"
    /\ Bounds_boundaries(region) = [x_min |-> -2, x_max |-> 0, y_min |-> 1, y_max |-> 2]
    /\ query.c = Coordinate(-2, 1)
    /\ query.result = Ok(3)

\* C21: OriginCenteredBounds::try_from(rectangle) succeeds exactly when the
\* rectangle satisfies the centring parity rule on both axes (odd count and
\* max = -min, or even count and max = -min + 1); on success it wraps a
\* rectangle with the same four boundaries; otherwise it fails with
\* InvalidRegion carrying the x pair when the x axis is invalid, else the
\* y pair.
C21_TryFrom ==
    query.name = "try_from" =>
        LET b == Bounds_boundaries(region)
            x_valid == CenteredAxis(b.x_min, b.x_max)
            y_valid == CenteredAxis(b.y_min, b.y_max)
        IN  /\ (query.result.kind = "Ok") <=> (x_valid /\ y_valid)
            /\ query.result.kind = "Ok" =>
                  /\ Bounds_boundaries(query.result.val) = b
                  /\ OriginCentered_boundaries(query.result.val) = b
            /\ ~x_valid => query.result = InvalidRegionError(b.x_min, b.x_max)
            /\ (x_valid /\ ~y_valid) =>
                  query.result = InvalidRegionError(b.y_min, b.y_max)

\* A rectangle off centre on both axes has been refused with its x pair.
C21_Witness ==
    /\ query.name = "try_from"
    /\ Bounds_boundaries(region) = [x_min |-> 1, x_max |-> 2, y_min |-> -2, y_max |-> 0]
    /\ query.result = InvalidRegionError(1, 2)

\* An even-by-odd centred rectangle has been accepted.
C21_WitnessOk ==
    /\ query.name = "try_from"
    /\ Bounds_boundaries(region) = [x_min |-> 0, x_max |-> 1, y_min |-> -1, y_max |-> 1]
    /\ query.result.kind = "Ok"

\* C24: for a Bounds reached from Bounds::new by expansions,
\* expand_in_direction(d) moves only the two corners facing d, by one step:
\* the boundary facing d moves outward by 1, the other three boundaries are
\* unchanged and the count on that axis grows by 1; add_top_row is
\* expand_in_direction(North) and add_bottom_row is expand_in_direction(South).
C24_ExpandInDirection ==
    /\ query.name = "expand_in_direction" =>
          LET was == Bounds_boundaries(query.before)
              now == Bounds_boundaries(region)
              d   == query.dir
          IN  /\ \A corner \in DOMAIN region :
                    region[corner] =
                       IF corner \in mut_coordinates_facing_direction(d)
                       THEN coordinate_in_direction(query.before[corner], d, 1)
                       ELSE query.before[corner]
              /\ now.y_max = was.y_max + (IF d = "North" THEN 1 ELSE 0)
              /\ now.y_min = was.y_min - (IF d = "South" THEN 1 ELSE 0)
              /\ now.x_max = was.x_max + (IF d = "East" THEN 1 ELSE 0)
              /\ now.x_min = was.x_min - (IF d = "West" THEN 1 ELSE 0)
              /\ x_count(now) = x_count(was) + (IF d \in {"East", "West"} THEN 1 ELSE 0)
              /\ y_count(now) = y_count(was) + (IF d \in {"North", "South"} THEN 1 ELSE 0)
    /\ query.name = "add_top_row" =>
          region = expand_in_direction(query.before, "North")
    /\ query.name = "add_bottom_row" =>
          region = expand_in_direction(query.before, "South")

\* An already expanded rectangle has been expanded to the East.
C24_Witness ==
    /\ query.name = "expand_in_direction"
    /\ query.dir = "East"
    /\ Bounds_boundaries(query.before) = [x_min |-> -2, x_max |-> -1, y_min |-> 1, y_max |-> 2]
    /\ Bounds_boundaries(region) = [x_min |-> -2, x_max |-> 0, y_min |-> 1, y_max |-> 2]

\* A bottom row has been added to an off-centre rectangle.
C24_WitnessBottomRow ==
    /\ query.name = "add_bottom_row"
    /\ Bounds_boundaries(query.before).y_min = 1
    /\ Bounds_boundaries(region).y_min = 0

(***************************************************************************)
(* Properties of SpecCentered.                                             *)
(***************************************************************************)
\* C22: each expand_bounds_horizontally call grows x_count by exactly 1 and
\* leaves the y boundaries unchanged, moving the West boundary (returning
\* true) when x_count was even and the East boundary (returning false) when
\* it was odd; each expand_bounds_vertically call grows y_count by exactly 1
\* and leaves the x boundaries unchanged, moving North (true) when y_count
\* was odd and South (false) when it was even.
C22_ExpandBounds ==
    LET was == Bounds_boundaries(query.before)
        now == Bounds_boundaries(region)
    IN  /\ query.name = "expand_bounds_horizontally" =>
              /\ OriginBounded_x_count(region) = OriginBounded_x_count(query.before) + 1
              /\ OriginBounded_y_count(region) = OriginBounded_y_count(query.before)
              /\ now.y_min = was.y_min /\ now.y_max = was.y_max
              /\ OriginCentered_boundaries(region).y_min =
                     OriginCentered_boundaries(query.before).y_min
              /\ OriginCentered_boundaries(region).y_max =
                     OriginCentered_boundaries(query.before).y_max
              /\ IF OriginBounded_x_count(query.before) % 2 = 0
                 THEN /\ query.ret = TRUE
                      /\ now.x_min = was.x_min - 1 /\ now.x_max = was.x_max
                 ELSE /\ query.ret = FALSE
                      /\ now.x_max = was.x_max + 1 /\ now.x_min = was.x_min
        /\ query.name = "expand_bounds_vertically" =>
              /\ OriginBounded_y_count(region) = OriginBounded_y_count(query.before) + 1
              /\ OriginBounded_x_count(region) = OriginBounded_x_count(query.before)
              /\ now.x_min = was.x_min /\ now.x_max = was.x_max
              /\ OriginCentered_boundaries(region).x_min =
                     OriginCentered_boundaries(query.before).x_min
              /\ OriginCentered_boundaries(region).x_max =
                     OriginCentered_boundaries(query.before).x_max
              /\ IF OriginBounded_y_count(query.before) % 2 = 1
                 THEN /\ query.ret = TRUE
                      /\ now.y_max = was.y_max + 1 /\ now.y_min = was.y_min
                 ELSE /\ query.ret = FALSE
                      /\ now.y_min = was.y_min - 1 /\ now.y_max = was.y_max

\* A vertical expansion of an even-height rectangle has moved its south edge.
C22_Witness ==
    /\ query.name = "expand_bounds_vertically"
    /\ OriginBounded_y_count(query.before) = 4
    /\ query.ret = FALSE
    /\ Bounds_boundaries(region).y_min = -2

\* A horizontal expansion of an even-width rectangle has moved its west edge.
C22_WitnessWest ==
    /\ query.name = "expand_bounds_horizontally"
    /\ OriginBounded_x_count(query.before) = 2
    /\ query.ret = TRUE
    /\ Bounds_boundaries(region).x_min = -1

\* C23: after any sequence of expand_bounds_horizontally and
\* expand_bounds_vertically calls starting from OriginCenteredBounds::new(m, n)
\* the stored rectangle satisfies the centring rule on both axes and its four
\* stored boundaries equal the boundaries the Bounded queries derive from the
\* counts alone; new(0, 0) expanded vertically twice has y_min = -1 and
\* y_max = 1, and ten vertical expansions from a single point give y in
\* [-5, 5].
C23_ExpansionKeepsCentering ==
    LET stored == Bounds_boundaries(region)
    IN  /\ CenteredAxis(stored.x_min, stored.x_max)
        /\ CenteredAxis(stored.y_min, stored.y_max)
        /\ stored = OriginCentered_boundaries(region)
        /\ (query.x_count = 0 /\ query.y_count = 0 /\ query.vertical = 2) =>
              (stored.y_min = -1 /\ stored.y_max = 1)
        /\ (query.x_count \in {0, 1} /\ query.y_count \in {0, 1}
              /\ query.vertical = 10) =>
              (stored.y_min = -5 /\ stored.y_max = 5)

\* A single point has been expanded vertically ten times, and sideways too.
C23_Witness ==
    /\ query.x_count = 1 /\ query.y_count = 1
    /\ query.vertical = 10
    /\ query.horizontal = 3
    /\ Bounds_boundaries(region) = [x_min |-> -1, x_max |-> 2, y_min |-> -5, y_max |-> 5]

\* new(0, 0) has been expanded vertically twice.
C23_WitnessZero ==
    /\ query.x_count = 0 /\ query.y_count = 0
    /\ query.vertical = 2 /\ query.horizontal = 0
    /\ Bounds_boundaries(region) = [x_min |-> 0, x_max |-> 0, y_min |-> -1, y_max |-> 1]

(***************************************************************************)
(* Properties of SpecCursor.                                               *)
(***************************************************************************)
Setters ==
    {"set_x_min_boundary", "set_x_max_boundary",
     "set_y_min_boundary", "set_y_max_boundary"}

\* The boundary a setter names, read from the boundary record b.
Named(name, b) ==
    CASE name = "set_x_min_boundary" -> b.x_min
      [] name = "set_x_max_boundary" -> b.x_max
      [] name = "set_y_min_boundary" -> b.y_min
      [] name = "set_y_max_boundary" -> b.y_max

\* The coordinate v clamped into lo..hi.
Clamp(v, lo, hi) == IF v > hi THEN hi ELSE IF v < lo THEN lo ELSE v

\* The coordinate k steps from p in direction d, with no regard for bounds.
Stepped(p, d, k) ==
    CASE d = "North" -> Coordinate(p.x, p.y + k)
      [] d = "South" -> Coordinate(p.x, p.y - k)
      [] d = "East"  -> Coordinate(p.x + k, p.y)
      [] d = "West"  -> Coordinate(p.x - k, p.y)

\* C25: for a cursor at position p inside its bounds,
\* move_in_absolute_direction(d, k) sets the position to p moved k steps in
\* direction d and then clamped per axis into the bounds, and returns true
\* exactly when the new position differs from p.
C25_ClampedMove ==
    (/\ query.name = "move_in_absolute_direction"
     /\ is_within_bounds(Marker_boundaries(query.before), query.before.current_pos)) =>
        LET b == Marker_boundaries(query.before)
            p == query.before.current_pos
            t == Stepped(p, query.direction, query.magnitude)
        IN  /\ query.kind = "Ok"
            /\ cursor.current_pos =
                  Coordinate(Clamp(t.x, b.x_min, b.x_max), Clamp(t.y, b.y_min, b.y_max))
            /\ query.ret = (cursor.current_pos # p)

\* A two-step move to the East has been cut short by the east boundary.
C25_Witness ==
    /\ query.name = "move_in_absolute_direction"
    /\ query.direction = "East" /\ query.magnitude = 2
    /\ Marker_boundaries(query.before) = [x_min |-> -1, x_max |-> 1, y_min |-> 0, y_max |-> 1]
    /\ query.before.current_pos = Coordinate(0, 1)
    /\ cursor.current_pos = Coordinate(1, 1)
    /\ query.ret = TRUE

\* A move against the boundary the cursor already stands on has returned false.
C25_WitnessStuck ==
    /\ query.name = "move_in_absolute_direction"
    /\ query.direction = "North" /\ query.magnitude = 1
    /\ query.before.current_pos.y = Marker_boundaries(query.before).y_max
    /\ query.ret = FALSE

\* C26: set_x_min_boundary(b) / set_y_min_boundary(b) returns an error when
\* b is greater than the current maximum of that axis or greater than the
\* cursor's position on that axis; set_x_max_boundary(b) /
\* set_y_max_boundary(b) returns an error when b is smaller than the current
\* minimum or smaller than the position; whenever an error is returned all
\* four boundaries and the position are unchanged.
C26_RefusedBoundary ==
    query.name \in Setters =>
        LET b == Marker_boundaries(query.before)
            p == query.before.current_pos
            v == query.boundary
        IN  /\ (query.name = "set_x_min_boundary" /\ (v > b.x_max \/ v > p.x)) =>
                  query.result.kind = "Err"
            /\ (query.name = "set_y_min_boundary" /\ (v > b.y_max \/ v > p.y)) =>
                  query.result.kind = "Err"
            /\ (query.name = "set_x_max_boundary" /\ (v < b.x_min \/ v < p.x)) =>
                  query.result.kind = "Err"
            /\ (query.name = "set_y_max_boundary" /\ (v < b.y_min \/ v < p.y)) =>
                  query.result.kind = "Err"
            /\ query.result.kind = "Err" =>
                  /\ Marker_boundaries(cursor) = b
                  /\ cursor.current_pos = p

\* A new x minimum inside the rectangle but beyond the cursor has been refused.
C26_Witness ==
    /\ query.name = "set_x_min_boundary"
    /\ query.boundary = 1
    /\ Marker_boundaries(query.before).x_max = 1
    /\ query.before.current_pos.x = 0
    /\ query.result.kind = "Err"

\* A new y maximum below the current minimum has been refused.
C26_WitnessMax ==
    /\ query.name = "set_y_max_boundary"
    /\ query.boundary < Marker_boundaries(query.before).y_min
    /\ query.result.kind = "Err"

\* C28: a successful set_x_min_boundary, set_x_max_boundary,
\* set_y_min_boundary or set_y_max_boundary changes only the boundary it
\* names: the other boundary of the same axis, both boundaries of the other
\* axis and the cursor's position are unchanged.
C28_OnlyNamedBoundaryChanges ==
    (query.name \in Setters /\ query.result.kind = "Ok") =>
        LET was == Marker_boundaries(query.before)
            now == Marker_boundaries(cursor)
        IN  /\ cursor.current_pos = query.before.current_pos
            /\ query.name # "set_x_min_boundary" => now.x_min = was.x_min
            /\ query.name # "set_x_max_boundary" => now.x_max = was.x_max
            /\ query.name # "set_y_min_boundary" => now.y_min = was.y_min
            /\ query.name # "set_y_max_boundary" => now.y_max = was.y_max

\* C28, what the code does instead: a successful setter leaves the position,
\* the other boundary of its axis and the minimum of the other axis alone,
\* and moves the maximum of the other axis outward by one.
C28_OtherAxisGrows ==
    (query.name \in Setters /\ query.result.kind = "Ok") =>
        LET was == Marker_boundaries(query.before)
            now == Marker_boundaries(cursor)
            on_x == query.name \in {"set_x_min_boundary", "set_x_max_boundary"}
        IN  /\ cursor.current_pos = query.before.current_pos
            /\ query.name # "set_x_min_boundary" => now.x_min = was.x_min
            /\ query.name # "set_y_min_boundary" => now.y_min = was.y_min
            /\ query.name = "set_x_min_boundary" => now.x_max = was.x_max
            /\ query.name = "set_y_min_boundary" => now.y_max = was.y_max
            /\ on_x => now.y_max = was.y_max + 1
            /\ ~on_x => now.x_max = was.x_max + 1

\* C29: when set_<axis>_<min|max>_boundary(b) satisfies the constraints (a
\* new minimum not above the current maximum nor the position, a new maximum
\* not below the current minimum nor the position) it returns Ok(b),
\* afterwards the named boundary is b and the count on that axis is
\* max - min + 1 with the new value; from the single point [0, 0], setting
\* y_max to 1 gives y_count 2.
C29_AcceptedBoundary ==
    query.name \in Setters =>
        LET was == Marker_boundaries(query.before)
            now == Marker_boundaries(cursor)
            p == query.before.current_pos
            v == query.boundary
            allowed ==
                CASE query.name = "set_x_min_boundary" -> v <= was.x_max /\ v <= p.x
                  [] query.name = "set_x_max_boundary" -> v >= was.x_min /\ v >= p.x
                  [] query.name = "set_y_min_boundary" -> v <= was.y_max /\ v <= p.y
                  [] query.name = "set_y_max_boundary" -> v >= was.y_min /\ v >= p.y
        IN  allowed =>
              /\ query.result = Ok(v)
              /\ Named(query.name, now) = v
              /\ query.name = "set_x_min_boundary" => x_count(now) = was.x_max - v + 1
              /\ query.name = "set_x_max_boundary" => x_count(now) = v - was.x_min + 1
              /\ query.name = "set_y_min_boundary" => y_count(now) = was.y_max - v + 1
              /\ query.name = "set_y_max_boundary" => y_count(now) = v - was.y_min + 1
              /\ (query.name = "set_y_max_boundary" /\ v = 1
                    /\ was = [x_min |-> 0, x_max |-> 0, y_min |-> 0, y_max |-> 0]) =>
                    y_count(now) = 2

\* The y maximum of the single point at the origin has been raised to 1.
C29_Witness ==
    /\ query.name = "set_y_max_boundary"
    /\ query.boundary = 1
    /\ Marker_boundaries(query.before) = [x_min |-> 0, x_max |-> 0, y_min |-> 0, y_max |-> 0]
    /\ query.result = Ok(1)
    /\ y_count(Marker_boundaries(cursor)) = 2

\* An x minimum has been raised up to the cursor, shrinking the rectangle.
C29_WitnessShrink ==
    /\ query.name = "set_x_min_boundary"
    /\ query.boundary = 0
    /\ Marker_boundaries(query.before).x_min = -1
    /\ query.before.current_pos.x = 0
    /\ query.result = Ok(0)

\* C30: when inherit_boundaries(b) returns Ok, the cursor's four boundaries
\* (x_min, x_max, y_min, y_max) equal the four boundaries of b.
C30_InheritedBoundaries ==
    (query.name = "inherit_boundaries" /\ query.result.kind = "Ok") =>
        Marker_boundaries(cursor) = query.bounded

\* C30, what the code does instead: x_min, x_max and y_min are those of b,
\* and y_max is one more than that of b.
C30_InheritedButForYMax ==
    (query.name = "inherit_boundaries" /\ query.result.kind = "Ok") =>
        Marker_boundaries(cursor) =
            [query.bounded EXCEPT !.y_max = query.bounded.y_max + 1]

(***************************************************************************)
(* Properties of SpecRows.                                                 *)
(***************************************************************************)
Ragged(rows) == \E i \in 1..Len(rows) : Len(rows[i]) # Len(rows[1])

\* The grid g has the shape of the rows and holds their cells, row 1 of the
\* list being the northmost row.
HoldsRows(g, rows) ==
    /\ Grid_y_count(g) = Len(rows)
    /\ Grid_x_count(g) = Len(rows[1])
    /\ \A r \in 1..Len(rows), c \in 1..Len(rows[1]) :
          With(AtMatrixLike(g, c - 1, r - 1), LAMBDA at :
              /\ r = 1 => at.y = Grid_boundaries(g).y_max
              /\ element(g, at) =
                    IF rows[r][c] = None
                    THEN UnoccupiedError(at)
                    ELSE Ok(rows[r][c][1]))

\* C27: Grid::try_from(rows) for a non-empty list of rows fails with a
\* creation error exactly when the rows do not all have the same length;
\* otherwise the grid has y_count = number of rows and x_count = row length,
\* row 0 is the northmost row, and the cell at matrix-like position
\* (column c, row r) is occupied with v exactly when rows[r][c] is Some(v).
C27_TryFromRows ==
    (op.name = "try_from" /\ op.rows # << >>) =>
        /\ (res.kind = "GridCreationError") <=> Ragged(op.rows)
        /\ ~Ragged(op.rows) => (res.kind = "Ok" /\ HoldsRows(grid, op.rows))

\* C27, restricted to rows that have at least one cell: the statement holds.
C27_TryFromRowsOfCells ==
    (op.name = "try_from" /\ op.rows # << >>) =>
        /\ (res.kind = "GridCreationError") <=> Ragged(op.rows)
        /\ (~Ragged(op.rows) /\ Len(op.rows[1]) > 0) =>
              (res.kind = "Ok" /\ HoldsRows(grid, op.rows))

\* C27, the rows without cells: the grid is one column wide, stores no cell,
\* and reading its origin panics.
C27_RowsWithoutCells ==
    (op.name = "try_from" /\ op.rows # << >> /\ ~Ragged(op.rows)
        /\ Len(op.rows[1]) = 0) =>
        /\ res.kind = "Ok"
        /\ Grid_x_count(grid) = 1
        /\ Grid_y_count(grid) = Len(op.rows)
        /\ grid.grid_data = << >>
        /\ element(grid, Origin) = Panic

\* Two rows of two cells have been converted and the south-east cell read.
C27_Witness ==
    /\ op.name = "try_from"
    /\ op.rows = << << Some(1), None >>, << None, Some(2) >> >>
    /\ res.kind = "Ok"
    /\ query.name = "element"
    /\ query.c = Coordinate(1, 0)
    /\ query.result = Ok(2)

\* A list of rows of different lengths has been refused.
C27_WitnessRagged ==
    /\ op.name = "try_from"
    /\ op.rows = << << Some(1) >>, << >> >>
    /\ res.kind = "GridCreationError"

C34_CardinalNeighbours ==
    query.name = "bounded_neighbors" =>
        /\ \A i \in 1..Len(query.result) :
              \/ query.result[i].x = cursor.current_pos.x
              \/ query.result[i].y = cursor.current_pos.y
        /\ \A i \in 1..Len(manhattan_neighbors(cursor.current_pos)) :
              LET n == manhattan_neighbors(cursor.current_pos)[i]
              IN  is_within_bounds(Marker_boundaries(cursor), n) <=>
                      \E j \in 1..Len(query.result) : query.result[j] = n

\* C34, what the code does instead: bounded_neighbors is the bounded
\* counterpart of euclid_neighbors, diagonals included.
C34_EuclidNeighbours ==
    query.name = "bounded_neighbors" =>
        /\ \A n \in {Coordinate(cursor.current_pos.x + dx, cursor.current_pos.y + dy) :
                        dx \in {-1, 0, 1}, dy \in {-1, 0, 1}} \ {cursor.current_pos} :
              is_within_bounds(Marker_boundaries(cursor), n) <=>
                  \E j \in 1..Len(query.result) : query.result[j] = n
        /\ \A i \in 1..Len(query.result) :
              /\ query.result[i] # cursor.current_pos
              /\ query.result[i].x - cursor.current_pos.x \in {-1, 0, 1}
              /\ query.result[i].y - cursor.current_pos.y \in {-1, 0, 1}

\* C39: in every state of a bounded cursor reachable from construction by any
\* sequence of clamped moves, turns, set_current_x_to_x_min/max,
\* set_current_y_to_y_min/max and successful or rejected set_*_boundary
\* calls, the position lies within the current bounds and x_min <= x_max and
\* y_min <= y_max.
C39_PositionWithinBounds ==
    /\ is_within_bounds(Marker_boundaries(cursor), cursor.current_pos)
    /\ Marker_boundaries(cursor).x_min <= Marker_boundaries(cursor).x_max
    /\ Marker_boundaries(cursor).y_min <= Marker_boundaries(cursor).y_max

\* The cursor has been put on its x maximum from elsewhere.
C39_Witness ==
    /\ query.name = "set_current_x_to_x_max"
    /\ query.before.current_pos.x < cursor.current_pos.x
    /\ cursor.current_pos.x = Marker_boundaries(cursor).x_max

\* A boundary has been refused and the cursor is as it was.
C39_WitnessRefused ==
    /\ query.name \in Setters
    /\ query.result.kind = "Err"
    /\ cursor = query.before

\* The cursor has turned.
C39_WitnessTurn ==
    /\ query.name = "turn"
    /\ cursor.current_direction # query.before.current_direction

(***************************************************************************)
(* Further properties of Spec.                                             *)
(***************************************************************************)
\* C36: a zero count is tolerated: OriginCenteredBounds::new and Grid::new
\* with count 0 on an axis yield min = max = 0 on that axis without
\* panicking, the grid still satisfies storage length == x_count() * y_count()
\* with one cell at every in-bounds coordinate, and coordinates outside [0,0]
\* on that axis are out of bounds.
C36_ZeroCount ==
    (op.name = "new" /\ (op.x_count = 0 \/ op.y_count = 0)) =>
        With(Grid_boundaries(grid), LAMBDA b :
            /\ res.kind = "Ok"
            /\ OriginCenteredBounds_new(op.x_count, op.y_count).kind = "Ok"
            /\ OriginCenteredBounds_new(op.x_count, op.y_count).val = grid.bounds
            /\ op.x_count = 0 => (b.x_min = 0 /\ b.x_max = 0)
            /\ op.y_count = 0 => (b.y_min = 0 /\ b.y_max = 0)
            /\ Len(grid.grid_data) = Grid_x_count(grid) * Grid_y_count(grid)
            /\ \A c \in Window(b) :
                  IF is_within_bounds(b, c)
                  THEN /\ coordinate_to_index(b, c).kind = "Ok"
                       /\ coordinate_to_index(b, c).val + 1 \in 1..Len(grid.grid_data)
                       /\ grid.grid_data[coordinate_to_index(b, c).val + 1] =
                              GridCoordinate_Empty(c)
                  ELSE coordinate_to_index(b, c).kind = "OutOfBoundsError"
            /\ \A i, j \in 1..Len(grid.grid_data) :
                  grid.grid_data[i] = grid.grid_data[j] => i = j
            /\ \A c \in Window(b) :
                  /\ (op.x_count = 0 /\ c.x # 0) => ~is_within_bounds(b, c)
                  /\ (op.y_count = 0 /\ c.y # 0) => ~is_within_bounds(b, c))

\* Grid::new(0, 3): a single column of three cells.
C36_Witness ==
    /\ op = [name |-> "new", x_count |-> 0, y_count |-> 3]
    /\ Len(grid.grid_data) = 3
    /\ Grid_boundaries(grid) = [x_min |-> 0, x_max |-> 0, y_min |-> -1, y_max |-> 1]

\* Grid::new(0, 0): the single cell at the origin.
C36_WitnessBoth ==
    /\ op = [name |-> "new", x_count |-> 0, y_count |-> 0]
    /\ grid.grid_data = << GridCoordinate_Empty(Origin) >>

\* C37: in every state reachable from Grid::new or Grid::try_from by any
\* sequence of store_element, remove_element, move_element_in_direction,
\* add_row, expand_at_row and transpose_new, every Empty placeholder carries
\* the logical coordinate of its own slot: if the cell at index i is Empty(c)
\* then c == index_to_coordinate(i).
C37_PlaceholderCoordinates ==
    \A i \in 1..Len(grid.grid_data) :
        grid.grid_data[i].kind = "Empty" =>
            index_to_coordinate(Grid_boundaries(grid), i - 1) = Ok(grid.grid_data[i].c)

\* C38: move_element_in_direction returns Ok only when the source holds an
\* element, and the error kind is decided in a fixed order: OutOfBounds
\* carrying the source when the source is outside the bounds; else OutOfBounds
\* carrying the would-be destination when one step leaves the bounds; else
\* Collision when the destination is occupied; else Unoccupied carrying the
\* source when the source is empty.  So a move from an empty in-bounds cell
\* always fails, but with Unoccupied only if the destination is in bounds and
\* empty.
C38_MoveErrorOrder ==
    op.name = "move_element_in_direction" =>
        LET b      == Grid_boundaries(pre)
            source == op.c
            dest   == Stepped(op.c, op.direction, 1)
        IN  /\ res =
                  IF ~is_within_bounds(b, source) THEN OutOfBoundsError(source)
                  ELSE IF ~is_within_bounds(b, dest) THEN OutOfBoundsError(dest)
                  ELSE IF Occupant(pre, dest) # None THEN CollisionError
                  ELSE IF Occupant(pre, source) = None THEN UnoccupiedError(source)
                  ELSE Ok(dest)
            /\ res.kind = "Ok" =>
                  (is_within_bounds(b, source) /\ Occupant(pre, source) # None)
            /\ (is_within_bounds(b, source) /\ Occupant(pre, source) = None) =>
                  /\ res.kind # "Ok"
                  /\ res.kind = "UnoccupiedError" <=>
                        (is_within_bounds(b, dest) /\ Occupant(pre, dest) = None)

\* An empty cell next to an occupied one has been moved onto it: Collision.
C38_Witness ==
    /\ op.name = "move_element_in_direction"
    /\ is_within_bounds(Grid_boundaries(pre), op.c)
    /\ Occupant(pre, op.c) = None
    /\ res = CollisionError

\* An empty cell has been moved onto an empty neighbour: Unoccupied.
C38_WitnessUnoccupied ==
    /\ op.name = "move_element_in_direction"
    /\ is_within_bounds(Grid_boundaries(pre), Stepped(op.c, op.direction, 1))
    /\ res = UnoccupiedError(op.c)

\* An empty cell on the edge has been moved off the grid: OutOfBounds.
C38_WitnessEdge ==
    /\ op.name = "move_element_in_direction"
    /\ is_within_bounds(Grid_boundaries(pre), op.c)
    /\ Occupant(pre, op.c) = None
    /\ res = OutOfBoundsError(Stepped(op.c, op.direction, 1))

\* A coordinate outside the grid has been moved: OutOfBounds with the source.
C38_WitnessOutside ==
    /\ op.name = "move_element_in_direction"
    /\ ~is_within_bounds(Grid_boundaries(pre), op.c)
    /\ res = OutOfBoundsError(op.c)

\* C37 on the grids that come of Grid::new and of rows that have cells.
C37_PlaceholdersOfCells ==
    (op.name \in {"try_from", "add_row"} /\ op.rows # << >> /\ Len(op.rows[1]) > 0) =>
        C37_PlaceholderCoordinates

(***************************************************************************)
(* Properties of SpecNeighbors.                                            *)
(***************************************************************************)
\* The elements of a sequence.
Range(s) == {s[i] : i \in 1..Len(s)}

\* The eight coordinates around c, and the four beside it.
Around(c) ==
    {Coordinate(c.x + dx, c.y + dy) : dx \in {-1, 0, 1}, dy \in {-1, 0, 1}} \ {c}
Beside(c) == {n \in Around(c) : n.x = c.x \/ n.y = c.y}

\* C32: for every bounded region and every input point outside its bounds,
\* bounded_neighbors_to returns an empty iterator.
C32_EmptyOutsideBounds ==
    (/\ query.name = "bounded_neighbors_to"
     /\ ~is_within_bounds(Bounds_boundaries(region), query.coordinate)) =>
        query.result = << >>

\* C32, what the code does instead: for a point outside the bounds it yields
\* the neighbours of the point that are within the bounds, so the result is
\* empty only when the point is more than one step away from the region.
C32_NeighboursOfOutsidePoint ==
    (/\ query.name = "bounded_neighbors_to"
     /\ ~is_within_bounds(Bounds_boundaries(region), query.coordinate)) =>
        /\ Range(query.result) =
              {n \in Around(query.coordinate) :
                  is_within_bounds(Bounds_boundaries(region), n)}

\* C33: for every bounded region and every coordinate c inside it,
\* bounded_neighbors_to(c) yields exactly the coordinates among the 8
\* cardinal and diagonal neighbours of c that lie within the bounds, each
\* once; the result has 8 items only when c is not on the border, strictly
\* fewer when c is a corner of the bounds, and 0 items for a single-point
\* region.
C33_BoundedNeighborsTo ==
    (/\ query.name = "bounded_neighbors_to"
     /\ is_within_bounds(Bounds_boundaries(region), query.coordinate)) =>
        LET b == Bounds_boundaries(region)
            c == query.coordinate
            on_border == c.x = b.x_min \/ c.x = b.x_max \/ c.y = b.y_min \/ c.y = b.y_max
            corner == c \in {northwest_corner(b), northeast_corner(b),
                             southwest_corner(b), southeast_corner(b)}
        IN  /\ Range(query.result) = {n \in Around(c) : is_within_bounds(b, n)}
            /\ \A i, j \in 1..Len(query.result) :
                  query.result[i] = query.result[j] => i = j
            /\ Len(query.result) = 8 => ~on_border
            /\ corner => Len(query.result) < 8
            /\ (x_count(b) = 1 /\ y_count(b) = 1) => Len(query.result) = 0

\* The centre of a 3 x 3 region has been asked for its neighbours: all eight.
C33_Witness ==
    /\ query.name = "bounded_neighbors_to"
    /\ Bounds_boundaries(region) = [x_min |-> -1, x_max |-> 1, y_min |-> -1, y_max |-> 1]
    /\ query.coordinate = Origin
    /\ Len(query.result) = 8

\* A corner of a 3 x 2 region has been asked for its neighbours: three.
C33_WitnessCorner ==
    /\ query.name = "bounded_neighbors_to"
    /\ Bounds_boundaries(region) = [x_min |-> -1, x_max |-> 1, y_min |-> 0, y_max |-> 1]
    /\ query.coordinate = Coordinate(1, 0)
    /\ Len(query.result) = 3

\* The call has returned: the loop has reached its break.
Returned == query.name = "coordinates_in_direction_from" /\ query.state.done

\* How far the boundary facing direction d is from the coordinate c.
ToBoundary(b, c, d) ==
    CASE d = "North" -> b.y_max - c.y
      [] d = "South" -> c.y - b.y_min
      [] d = "East"  -> b.x_max - c.x
      [] d = "West"  -> c.x - b.x_min

\* What a returned call with a start inside the bounds has returned.
C35_Returned ==
    (Returned /\ is_within_bounds(Bounds_boundaries(region), query.coordinate)) =>
        LET b == Bounds_boundaries(region)
            n == ToBoundary(b, query.coordinate, query.direction)
        IN  /\ query.state.result =
                  [i \in 1..n |-> Stepped(query.coordinate, query.direction, i)]
            /\ query.coordinate \notin Range(query.state.result)
            /\ (query.state.result = << >>) <=> (n = 0)

\* C35: for every bounded region, every start coordinate inside it and every
\* direction, coordinates_in_direction_from terminates and returns, nearest
\* first, exactly the coordinates at distance 1, 2, ... from the start in
\* that direction up to and including the boundary, excluding the start
\* itself; the result is empty exactly when the start lies on the boundary
\* facing that direction.
C35_CoordinatesInDirectionFrom ==
    /\ [](C35_Returned)
    /\ (query.name = "coordinates_in_direction_from") ~> Returned

\* A scan to the South from the north edge of a 3 x 3 region has returned.
C35_Witness ==
    /\ Returned
    /\ Bounds_boundaries(region) = [x_min |-> -1, x_max |-> 1, y_min |-> -1, y_max |-> 1]
    /\ query.coordinate = Coordinate(0, 1)
    /\ query.direction = "South"
    /\ query.state.result = << Coordinate(0, 0), Coordinate(0, -1) >>

\* A scan toward the boundary the start stands on has returned nothing.
C35_WitnessEmpty ==
    /\ Returned
    /\ query.coordinate = northeast_corner(Bounds_boundaries(region))
    /\ query.direction = "East"
    /\ query.state.result = << >>

====
